---- MODULE Spec2Model ----
(***************************************************************************)
(* A model of the prediction pipeline of bioimageio.core: the ONNX model   *)
(* adapter, PredictionPipeline.forward, predict, the resource tests        *)
(* (load_description_and_test) and setup_pre_and_postprocessing.           *)
(***************************************************************************)
EXTENDS Integers, Sequences, FiniteSets, TLC

VARIABLES
    model,      \* the model description: version, numbers of inputs/outputs
    adapter,    \* ONNXModelAdapter: _input_names, session, unload/run counters
    phase,      \* PredictionPipeline phase: none/uninitialized/active/closed
    pre_ops,    \* the pipeline's pre-processing operators
    post_ops,   \* the pipeline's post-processing operators
    pc,         \* position of the running entry point
    args,       \* arguments of load_description_and_test
    loc,        \* locals of the running resource test
    details,    \* rd.validation_summary.details
    call,       \* the predict call whose outcome the caller holds
    setup       \* setup_pre_and_postprocessing: arguments and result

vars == <<model, adapter, phase, pre_ops, post_ops, pc, args, loc, details,
          call, setup>>

(***************************************************************************)
(* Bounds                                                                  *)
(***************************************************************************)
MaxTensors == 2     \* inputs / outputs of a model description
MaxOps == 2         \* operators of one direction of a pipeline
MaxSteps == 2       \* declared processing steps per tensor
MaxSamples == 2     \* samples of dataset_for_initial_statistics
MaxEntries == 3     \* entries of a zip package
MaxCalls == 2       \* forward calls / unloads of one pipeline or adapter

Min(a, b) == IF a < b THEN a ELSE b

(***************************************************************************)
(* Values: tensors, arrays, exceptions, message strings                    *)
(***************************************************************************)
\* An Optional[Tensor]: None, or data with a shape tagged with axes.
NoneT == [none |-> TRUE, data |-> 0, shape |-> 0, dims |-> 0]
Tensor(d, sh, ax) == [none |-> FALSE, data |-> d, shape |-> sh, dims |-> ax]

\* An Optional[NDArray] as a backend session returns it.
NoneA == [none |-> TRUE, data |-> 0, shape |-> 0]
Arr(d, sh) == [none |-> FALSE, data |-> d, shape |-> sh]

\* The axes declared for input slot i / output slot i of the description.
InAxes(i) == i
OutAxes(i) == 10 + i

\* A piece of a message string; a string is a sequence of pieces, "" is << >>.
Tok(k, i) == [k |-> k, i |-> i]

\* An exception: its class, str(e) and its traceback (the raising site).
NoExc == [kind |-> "none", msg |-> << >>, tb |-> << >>]
Exc(kind, msg, site) == [kind |-> kind, msg |-> msg, tb |-> <<site>>]

\* str(e) of the exceptions operators and backends raise: empty or not.
ExcMsgs == { << >>, <<Tok("boom", 0)>> }

(***************************************************************************)
(* Processing operators (abstract): add 1 to / double one tensor of the    *)
(* sample.  The two do not commute, so the order of application shows.     *)
(***************************************************************************)
Op(kind, t) == [kind |-> kind, t |-> t]
OpKinds == {"add1", "dbl"}

ApplyOp(op, t) ==
    IF t.none THEN t
    ELSE [t EXCEPT !.data = IF op.kind = "add1" THEN @ + 1 ELSE @ * 2]

ApplyTo(op, sample) ==
    [i \in 1..Len(sample) |-> IF i = op.t THEN ApplyOp(op, sample[i]) ELSE sample[i]]

\* The operator lists of at most m operators over n tensors: operator k
\* works on tensor ((k-1) mod n)+1 and the kinds alternate from `first'.
OpList(n, len, first) ==
    [k \in 1..len |->
        Op(IF (k % 2 = 1) = (first = "add1") THEN "add1" ELSE "dbl",
           ((k - 1) % n) + 1)]

OpLists(n, m) == { OpList(n, len, f) : len \in 0..m, f \in OpKinds }

\* RunOps with the first k operators applied last to first.
RECURSIVE RunOpsReversed(_, _, _)
RunOpsReversed(ops, sample, k) ==
    IF k = 0 THEN sample
    ELSE RunOpsReversed([i \in 1..(k - 1) |-> ops[i + 1]], ApplyTo(ops[k], sample), k - 1)

\* RunOps(ops, sample, k): the sample after the first k operators of ops.
RECURSIVE RunOps(_, _, _)
RunOps(ops, sample, k) ==
    IF k = 0 THEN sample ELSE ApplyTo(ops[k], RunOps(ops, sample, k - 1))

(***************************************************************************)
(* ONNXModelAdapter                                                        *)
(***************************************************************************)
NoAdapter ==
    [nNames |-> 0, nAxes |-> 0, session |-> FALSE, unloads |-> 0, warnings |-> 0]

\* An __init__ that opens the session before it looks for the ONNX weights.
ONNXModelAdapter_initSessionFirst(m, rt, devices) ==
    IF ~rt THEN [exc |-> Exc("ImportError", <<Tok("onnxruntime", 0)>>, "adapter.init"),
                 adapter |-> NoAdapter]
    ELSE IF ~m.onnx
    THEN [exc |-> Exc("ValueError", <<Tok("No ONNX weights", 0)>>, "adapter.init"),
          adapter |-> [nNames |-> m.nSessIn, nAxes |-> m.nOut, session |-> TRUE,
                       unloads |-> 0, warnings |-> 0]]
    ELSE [exc |-> NoExc,
          adapter |-> [nNames |-> m.nSessIn, nAxes |-> m.nOut, session |-> TRUE,
                       unloads |-> 0,
                       warnings |-> IF devices THEN 1 ELSE 0]]

\* ONNXModelAdapter.__init__: rt is whether onnxruntime could be imported.
ONNXModelAdapter_init(m, rt, devices) ==
    IF ~rt THEN [exc |-> Exc("ImportError", <<Tok("onnxruntime", 0)>>, "adapter.init"),
                 adapter |-> NoAdapter]
    ELSE IF ~m.onnx
    THEN [exc |-> Exc("ValueError", <<Tok("No ONNX weights", 0)>>, "adapter.init"),
          adapter |-> NoAdapter]
    ELSE [exc |-> NoExc,
          adapter |-> [nNames |-> m.nSessIn, nAxes |-> m.nOut, session |-> TRUE,
                       unloads |-> 0,
                       warnings |-> IF devices THEN 1 ELSE 0]]

\* What one session.run does: raise, or return a list of arrays, or return
\* one object that is no list.
SeqsOfLen(S, lens) == UNION { [1..k -> S] : k \in lens }

SessOutcomes(arrs, lens) ==
    { [kind |-> "raise", msg |-> m, result |-> << >>] : m \in ExcMsgs }
    \cup { [kind |-> "list", msg |-> << >>, result |-> r] : r \in SeqsOfLen(arrs, lens) }
    \cup { [kind |-> "single", msg |-> << >>, result |-> <<a>>] : a \in arrs }

\* A forward that tags every output with the axes of the first output.
ONNXForwardFirstAxes(ad, input_tensors, sess) ==
    IF Len(input_tensors) # ad.nNames
    THEN [exc |-> Exc("AssertionError", << >>, "adapter.forward"), out |-> << >>,
          feed |-> << >>, runs |-> 0]
    ELSE
    LET feed == [i \in 1..ad.nNames |-> [none |-> input_tensors[i].none,
                                          data |-> input_tensors[i].data,
                                          shape |-> input_tensors[i].shape]]
        result_seq == sess.result
        k == Min(Len(result_seq), ad.nAxes)
    IN  IF sess.kind = "raise"
        THEN [exc |-> Exc("Exception", sess.msg, "session.run"), out |-> << >>,
              feed |-> feed, runs |-> 1]
        ELSE [exc |-> NoExc,
              out |-> [i \in 1..k |->
                         IF result_seq[i].none THEN NoneT
                         ELSE Tensor(result_seq[i].data, result_seq[i].shape, OutAxes(1))],
              feed |-> feed, runs |-> 1]

\* A forward without the assertion on the number of inputs.
ONNXForwardNoAssert(ad, input_tensors, sess) ==
    LET n == Min(Len(input_tensors), ad.nNames)
        feed == [i \in 1..n |-> [none |-> input_tensors[i].none,
                                 data |-> input_tensors[i].data,
                                 shape |-> input_tensors[i].shape]]
        result_seq == sess.result
        k == Min(Len(result_seq), ad.nAxes)
    IN  IF sess.kind = "raise"
        THEN [exc |-> Exc("Exception", sess.msg, "session.run"), out |-> << >>,
              feed |-> feed, runs |-> 1]
        ELSE [exc |-> NoExc,
              out |-> [i \in 1..k |->
                         IF result_seq[i].none THEN NoneT
                         ELSE Tensor(result_seq[i].data, result_seq[i].shape, OutAxes(i))],
              feed |-> feed, runs |-> 1]

\* ONNXModelAdapter.forward(*input_tensors) when the session behaves as sess:
\* the exception or the returned list, the feed given to the session and the
\* number of session.run calls.
ONNXForward(ad, input_tensors, sess) ==
    IF Len(input_tensors) # ad.nNames
    THEN [exc |-> Exc("AssertionError", << >>, "adapter.forward"), out |-> << >>,
          feed |-> << >>, runs |-> 0]
    ELSE
    LET feed == [i \in 1..ad.nNames |-> [none |-> input_tensors[i].none,
                                          data |-> input_tensors[i].data,
                                          shape |-> input_tensors[i].shape]]
        result_seq == sess.result
        k == Min(Len(result_seq), ad.nAxes)
    IN  IF sess.kind = "raise"
        THEN [exc |-> Exc("Exception", sess.msg, "session.run"), out |-> << >>,
              feed |-> feed, runs |-> 1]
        ELSE [exc |-> NoExc,
              out |-> [i \in 1..k |->
                         IF result_seq[i].none THEN NoneT
                         ELSE Tensor(result_seq[i].data, result_seq[i].shape, OutAxes(i))],
              feed |-> feed, runs |-> 1]

\* An unload that drops the session.
ONNXUnloadReleases(ad) ==
    [ad EXCEPT !.unloads = @ + 1, !.warnings = @ + 1, !.session = FALSE]

\* ONNXModelAdapter.unload: a warning, nothing is released.
ONNXUnload(ad) == [ad EXCEPT !.unloads = @ + 1, !.warnings = @ + 1]

(***************************************************************************)
(* PredictionPipeline                                                      *)
(***************************************************************************)
\* Where an operator of the pipeline fails in one forward call, if one does.
NoFail == [stage |-> "none", k |-> 0, msg |-> << >>]

Fails(pre, post) ==
    {NoFail}
    \cup { [stage |-> "pre", k |-> k, msg |-> <<Tok("op", k)>>] : k \in 1..Len(pre) }
    \cup { [stage |-> "post", k |-> k, msg |-> <<Tok("op", k)>>] : k \in 1..Len(post) }

\* A forward that swallows the failure and hands back what the adapter gave.
Swallowed(e, log, adapterArgs, adapterOut, feed, runs) ==
    [exc |-> NoExc, returned |-> TRUE,
     outputs |-> IF adapterOut = << >> THEN << >> ELSE adapterOut[1], log |-> log,
     adapterArgs |-> adapterArgs, adapterOut |-> adapterOut, feed |-> feed,
     runs |-> runs]

\* The outcome of a forward call that raised e.
Raised(e, log, adapterArgs, adapterOut, feed, runs) ==
    [exc |-> e, returned |-> FALSE, outputs |-> << >>, log |-> log,
     adapterArgs |-> adapterArgs, adapterOut |-> adapterOut, feed |-> feed,
     runs |-> runs]

\* A forward that takes whatever number of outputs the adapter returns.
AnyCount(out, nOut) == FALSE

\* The adapter returned another number of outputs than the description declares.
CountMismatch(out, nOut) == Len(out) # nOut

OpLog(stage, n) == [k \in 1..n |-> Tok(stage, k)]

\* PredictionPipeline.forward(*input_tensors): the pre-processing operators
\* in order, the adapter's forward, the post-processing operators in order.
\* log holds the operators and the adapter call in the order they were
\* started, adapterArgs the arguments of every adapter call.
PipelineForward(pre, post, ad, nIn, nOut, input_tensors, sess, fail) ==
    LET sample0 == SubSeq(input_tensors, 1, Min(Len(input_tensors), nIn))
        preDone == IF fail.stage = "pre" THEN fail.k - 1 ELSE Len(pre)
        sample1 == RunOps(pre, sample0, preDone)
        a == ONNXForward(ad, sample1, sess)
        logA == OpLog("pre", Len(pre)) \o <<Tok("adapter", 0)>>
        postDone == IF fail.stage = "post" THEN fail.k - 1 ELSE Len(post)
        sample2 == RunOps(post, a.out, postDone)
    IN  IF fail.stage = "pre"
        THEN Raised(Exc("Exception", fail.msg, "pre"), OpLog("pre", fail.k),
                    << >>, << >>, << >>, 0)
        ELSE IF Len(sample1) < nIn
        THEN Raised(Exc("KeyError", <<Tok("input", Len(sample1) + 1)>>, "forward"),
                    OpLog("pre", Len(pre)), << >>, << >>, << >>, 0)
        ELSE IF a.exc # NoExc
        THEN Raised(a.exc, logA, <<sample1>>, << >>, a.feed, a.runs)
        ELSE IF CountMismatch(a.out, nOut)
        THEN Raised(Exc("ValueError", <<Tok("outputs", Len(a.out))>>, "forward"),
                    logA, <<sample1>>, <<a.out>>, a.feed, a.runs)
        ELSE IF fail.stage = "post"
        THEN Raised(Exc("Exception", fail.msg, "post"), logA \o OpLog("post", fail.k),
                    <<sample1>>, <<a.out>>, a.feed, a.runs)
        ELSE [exc |-> NoExc, returned |-> TRUE, outputs |-> sample2,
              log |-> logA \o OpLog("post", Len(post)),
              adapterArgs |-> <<sample1>>, adapterOut |-> <<a.out>>,
              feed |-> a.feed, runs |-> a.runs]

\* PredictionPipeline.__enter__ and __exit__ (which unloads the adapter).
PipelineEnter(ph) == IF ph = "uninitialized" THEN "active" ELSE ph
PipelineExit(ph) == "closed"

(***************************************************************************)
(* predict                                                                 *)
(***************************************************************************)
\* The inputs of predict: a sequence of Tensors (tagged by the caller with
\* the axes of their slot) and raw arrays (no axes yet).
PredictInputs(vals, lens) ==
    { [kind |-> "seq",
       items |-> [i \in 1..Len(c) |->
                    [isTensor |-> c[i][1], data |-> c[i][2], shape |-> 1,
                     dims |-> IF c[i][1] THEN InAxes(i) ELSE 0]]] :
        c \in SeqsOfLen(BOOLEAN \X vals, lens) }

\* Tensor.from_numpy(ipt, dims=axes)
FromNumpy(ipt, axes) == Tensor(ipt.data, ipt.shape, axes)

\* A mapping input: the keys in the mapping's own order and the value under
\* each key.  A single input: one Tensor or array that is no sequence.
\* lib_raises is what the library does with an object that is no array
\* (Tensor.from_numpy of a key, iterating a Tensor): raise, or go on.
KeyOrders(n) ==
    { p \in [1..n -> 1..n] : \A i, j \in 1..n : p[i] = p[j] => i = j }

PredictItem(isTensor, d, i) ==
    [isTensor |-> isTensor, data |-> d, shape |-> 1,
     dims |-> IF isTensor THEN InAxes(i) ELSE 0]

MappingInputs(vals, nIn) ==
    { [kind |-> "mapping", keys |-> keys,
       items |-> [i \in 1..nIn |-> PredictItem(c[i][1], c[i][2], i)],
       lib_raises |-> lr] :
        keys \in KeyOrders(nIn), c \in [1..nIn -> BOOLEAN \X vals], lr \in BOOLEAN }

SingleInputs(vals) ==
    { [kind |-> "single", items |-> <<PredictItem(t, d, 1)>>, lib_raises |-> lr] :
        t \in BOOLEAN, d \in vals, lr \in BOOLEAN }

\* A key of the mapping, as the loop over the mapping yields it.
KeyItem(key) == [isTensor |-> FALSE, isKey |-> TRUE, data |-> 100 + key, shape |-> 0, dims |-> 0]

\* The first element the loop over one array or Tensor yields: the array at
\* index 0 of its first axis.
SubItem(ipt) == [ipt EXCEPT !.shape = @ - 1]

\* inputs_seq: the values by input id for a mapping, [inputs] for a single
\* Tensor or array, inputs itself otherwise.
InputsSeq(nIn, inputs) ==
    IF inputs.kind = "mapping" THEN [i \in 1..nIn |-> inputs.items[i]]
    ELSE inputs.items

\* What `for ipt, ipt_spec in zip(inputs, ...)' goes through: the keys of a
\* mapping in the mapping's order, the sub-arrays of a single array, the
\* elements of a sequence.
Zipped(nIn, inputs) ==
    IF inputs.kind = "mapping" THEN [k \in 1..Len(inputs.keys) |-> KeyItem(inputs.keys[k])]
    ELSE IF inputs.kind = "single" THEN <<SubItem(inputs.items[1])>>
    ELSE inputs.items

\* tagged_data = [ipt if isinstance(ipt, Tensor) else Tensor.from_numpy(...) ...]
TaggedData(nIn, inputs) ==
    LET zipped == Zipped(nIn, inputs)
        n == Min(Len(zipped), nIn)
    IN  [i \in 1..n |->
           IF zipped[i].isTensor
           THEN Tensor(zipped[i].data, zipped[i].shape, zipped[i].dims)
           ELSE FromNumpy(zipped[i], InAxes(i))]

\* The library raises on an object that is no array: a key given to
\* Tensor.from_numpy, a single Tensor that is iterated.
LibraryRaises(inputs) ==
    /\ inputs.kind \in {"mapping", "single"}
    /\ inputs.lib_raises
    /\ inputs.kind = "single" => inputs.items[1].isTensor

\* predict(prediction_pipeline, inputs)
predict(pre, post, ad, nIn, nOut, inputs, sess, fail) ==
    LET inputs_seq == InputsSeq(nIn, inputs)
        tagged_data == TaggedData(nIn, inputs)
    IN  IF inputs.kind # "mapping" /\ Len(inputs_seq) # nIn
        THEN Raised(Exc("AssertionError", << >>, "predict"), << >>, << >>, << >>,
                    << >>, 0)
        ELSE IF LibraryRaises(inputs)
        THEN Raised(Exc("TypeError", << >>, "predict"), << >>, << >>, << >>,
                    << >>, 0)
        ELSE PipelineForward(pre, post, ad, nIn, nOut, tagged_data, sess, fail)

(***************************************************************************)
(* Idle values of the parts a specification does not use                   *)
(***************************************************************************)
\* A call and its outcome: the inputs given, what the session and the
\* operators were to do (sess, fail), the pipeline's phase at the call, and
\* the outcome r of predict / forward.
CallRecord(inputs, sess, fail, ph, r) ==
    [inputs |-> inputs, sess |-> sess.kind, nResult |-> Len(sess.result), fail |-> fail,
     phase |-> ph,
     exc |-> r.exc, returned |-> r.returned, outputs |-> r.outputs, log |-> r.log,
     adapterArgs |-> r.adapterArgs, adapterOut |-> r.adapterOut, feed |-> r.feed,
     runs |-> r.runs]

NoCall ==
    CallRecord(<< >>, [kind |-> "none", result |-> << >>], NoFail, "none",
               [exc |-> NoExc, returned |-> FALSE, outputs |-> << >>, log |-> << >>,
                adapterArgs |-> << >>, adapterOut |-> << >>, feed |-> << >>,
                runs |-> 0])
NoArgs == [decimal |-> 0, expected_type |-> "None", devices |-> FALSE]

\* The locals of a resource test before it starts: error = None, tb = [].
\* fn is the running function, pending the exception that was raised, n the
\* position in the list of test cases, escaped an exception that left the
\* entry point.
NoLoc ==
    [fn |-> "none", inputs |-> << >>, expected |-> << >>, results |-> << >>,
     hasError |-> FALSE, error |-> << >>, tb |-> << >>, pending |-> NoExc,
     n |-> 0, escaped |-> NoExc]
NoSetup == [done |-> FALSE]

(***************************************************************************)
(* Direct prediction use: create a pipeline, enter its scope, call predict *)
(* any number of times, leave the scope.                                   *)
(***************************************************************************)
DirectVals == {1}
DirectArrs == {Arr(1, 1), NoneA}

DirectModels ==
    [version : {"v0_5"}, type : {"model"}, nIn : 1..MaxTensors, nOut : 1..MaxTensors,
     nTestOut : {0}, nSessIn : 1..MaxTensors, param : {FALSE}, onnx : BOOLEAN]

InitDirect ==
    /\ model \in DirectModels
    /\ adapter = NoAdapter
    /\ phase = "none"
    /\ pre_ops = << >>
    /\ post_ops = << >>
    /\ pc = "direct"
    /\ args = NoArgs
    /\ loc = NoLoc
    /\ details = << >>
    /\ call = NoCall
    /\ setup = NoSetup

\* create_prediction_pipeline(bioimageio_model=model, devices=devices)
CreatePipeline ==
    /\ pc = "direct"
    /\ phase = "none"
    /\ call.exc = NoExc
    /\ \E rt \in BOOLEAN, devices \in BOOLEAN :
         LET c == ONNXModelAdapter_init(model, rt, devices)
         IN  IF c.exc # NoExc
             THEN /\ call' = [call EXCEPT !.exc = c.exc]
                  /\ UNCHANGED <<adapter, phase, pre_ops, post_ops>>
             ELSE /\ adapter' = c.adapter
                  /\ phase' = "uninitialized"
                  /\ pre_ops' \in OpLists(model.nIn, MaxOps)
                  /\ post_ops' \in OpLists(model.nOut, MaxOps)
                  /\ UNCHANGED call
    /\ UNCHANGED <<model, pc, args, loc, details, setup>>

\* with prediction_pipeline: (entering)
DirectEnter ==
    /\ pc = "direct"
    /\ phase = "uninitialized"
    /\ phase' = PipelineEnter(phase)
    /\ UNCHANGED <<model, adapter, pre_ops, post_ops, pc, args, loc, details,
                   call, setup>>

\* predict(prediction_pipeline, inputs) inside the scope
DirectPredict ==
    /\ pc = "direct"
    /\ phase = "active"
    /\ call = NoCall
    /\ \E inputs \in PredictInputs(DirectVals, {model.nIn - 1, model.nIn}),
          sess \in SessOutcomes(DirectArrs, {model.nOut - 1, model.nOut, model.nOut + 1}),
          fail \in Fails(pre_ops, post_ops) :
         call' = CallRecord(inputs.items, sess, fail, phase,
                            predict(pre_ops, post_ops, adapter, model.nIn, model.nOut,
                                    inputs, sess, fail))
    /\ UNCHANGED <<model, adapter, phase, pre_ops, post_ops, pc, args, loc,
                   details, setup>>

\* with prediction_pipeline: (leaving, also when predict raised)
DirectExit ==
    /\ pc = "direct"
    /\ phase = "active"
    /\ phase' = PipelineExit(phase)
    /\ adapter' = ONNXUnload(adapter)
    /\ UNCHANGED <<model, pre_ops, post_ops, pc, args, loc, details, call,
                   setup>>

\* The caller takes the outcome of the call (the list, or the exception).
DirectTake ==
    /\ pc = "direct"
    /\ call # NoCall
    /\ phase # "none"
    /\ call' = NoCall
    /\ UNCHANGED <<model, adapter, phase, pre_ops, post_ops, pc, args, loc,
                   details, setup>>

NextDirect ==
    CreatePipeline \/ DirectEnter \/ DirectPredict \/ DirectTake \/ DirectExit

SpecDirect == InitDirect /\ [][NextDirect]_vars

(***************************************************************************)
(* predict with every kind of input: sequence, mapping, single             *)
(***************************************************************************)
PredictVals == {1, 2}

\* An active pipeline without processing operators over a working adapter.
InitPredict ==
    /\ model \in { m \in DirectModels : m.onnx /\ m.nSessIn = m.nIn }
    /\ adapter = ONNXModelAdapter_init(model, TRUE, FALSE).adapter
    /\ phase = "active"
    /\ pre_ops = << >>
    /\ post_ops = << >>
    /\ pc = "predict"
    /\ args = NoArgs
    /\ loc = NoLoc
    /\ details = << >>
    /\ call = NoCall
    /\ setup = NoSetup

\* predict(prediction_pipeline, inputs): call keeps the inputs as given.
PredictCall ==
    /\ pc = "predict"
    /\ call = NoCall
    /\ \E inputs \in PredictInputs(PredictVals, {model.nIn - 1, model.nIn})
                      \cup MappingInputs(PredictVals, model.nIn)
                      \cup SingleInputs(PredictVals),
          sess \in SessOutcomes(DirectArrs, {model.nOut}) :
         call' = CallRecord(inputs, sess, NoFail, phase,
                            predict(pre_ops, post_ops, adapter, model.nIn, model.nOut,
                                    inputs, sess, NoFail))
    /\ UNCHANGED <<model, adapter, phase, pre_ops, post_ops, pc, args, loc,
                   details, setup>>

NextPredict == PredictCall

SpecPredict == InitPredict /\ [][NextPredict]_vars

(***************************************************************************)
(* The ONNX adapter used on its own: construct, forward, unload            *)
(***************************************************************************)
AdapterVals == {1, 2}

\* The positional arguments of a forward call: tensors and None.
AdapterInputs(lens) ==
    { [i \in 1..Len(c) |-> IF c[i] = 0 THEN NoneT ELSE Tensor(c[i], 1, InAxes(i))] :
        c \in SeqsOfLen(AdapterVals \cup {0}, lens) }

\* The last forward call on the adapter: its arguments and its outcome.
NoAdapterCall ==
    [made |-> FALSE, inputs |-> << >>, sess |-> "none", exc |-> NoExc, out |-> << >>,
     feed |-> << >>, runs |-> 0]

InitAdapter ==
    /\ model \in DirectModels
    /\ adapter = NoAdapter
    /\ phase = "none"
    /\ pre_ops = << >>
    /\ post_ops = << >>
    /\ pc = "adapter"
    /\ args = NoArgs
    /\ loc = NoLoc
    /\ details = << >>
    /\ call = NoAdapterCall
    /\ setup = NoSetup

\* ONNXModelAdapter(model_description=model, devices=devices): args keeps
\* whether onnxruntime was importable and whether devices were given, call
\* the exception of the constructor.
AdapterConstruct ==
    /\ pc = "adapter"
    /\ \E rt \in BOOLEAN, devices \in BOOLEAN :
         LET c == ONNXModelAdapter_init(model, rt, devices)
         IN  /\ args' = [rt |-> rt, devices |-> devices]
             /\ adapter' = c.adapter
             /\ call' = [call EXCEPT !.exc = c.exc]
             /\ pc' = IF c.exc # NoExc THEN "init_raised" ELSE "constructed"
    /\ UNCHANGED <<model, phase, pre_ops, post_ops, loc, details, setup>>

\* adapter.forward(*input_tensors)
AdapterForward ==
    /\ pc = "constructed"
    /\ ~call.made
    /\ \E input_tensors \in AdapterInputs({adapter.nNames - 1, adapter.nNames,
                                            adapter.nNames + 1}),
          sess \in SessOutcomes(DirectArrs, {model.nOut}) :
         LET r == ONNXForward(adapter, input_tensors, sess)
         IN  call' = [made |-> TRUE, inputs |-> input_tensors, sess |-> sess.kind,
                      exc |-> r.exc, out |-> r.out, feed |-> r.feed, runs |-> r.runs]
    /\ UNCHANGED <<model, adapter, phase, pre_ops, post_ops, pc, args, loc, details,
                   setup>>

\* adapter.unload()
AdapterUnload ==
    /\ pc = "constructed"
    /\ adapter.unloads < MaxCalls
    /\ adapter' = ONNXUnload(adapter)
    /\ UNCHANGED <<model, phase, pre_ops, post_ops, pc, args, loc, details, call,
                   setup>>

NextAdapter == AdapterConstruct \/ AdapterForward \/ AdapterUnload

SpecAdapter == InitAdapter /\ [][NextAdapter]_vars

(***************************************************************************)
(* The resource tests: load_description_and_test on a loaded description   *)
(***************************************************************************)
Decimals == {0, 1}
\* Data of the expected outputs and of the arrays the session returns, in
\* tenths: the post-processing operator adds 1, so the results differ from
\* the expected data by 0, by 0.2 and by exactly 1.5.
ExpectedVals == {1}
TestArrs == {Arr(0, 1), Arr(2, 1), Arr(15, 1), Arr(0, 2), NoneA}

\* for n in [0, 1, 2, 3]
NList == <<0, 1, 2, 3>>

\* The descriptions under test: models with one input (the session may
\* still declare two) and up to MaxTensors outputs, of which a v0_4 model
\* may list fewer or more test outputs; and one description that is no model.
TestModels ==
    { m \in [version : {"v0_4", "v0_5"}, type : {"model", "dataset"},
             nIn : {1}, nOut : 1..MaxTensors, nTestOut : 1..MaxTensors,
             nSessIn : {1, 2}, param : BOOLEAN, onnx : {TRUE}] :
        /\ m.type = "dataset" =>
              /\ m.version = "v0_5" /\ m.nOut = 1 /\ m.nTestOut = 1
              /\ m.nSessIn = 1 /\ ~m.param
        /\ m.version = "v0_4" => ~m.param
        /\ m.version = "v0_5" => m.nTestOut = m.nOut }

TestArgs ==
    [decimal : Decimals, expected_type : {"None", "model"}, devices : {FALSE}]

\* The operators create_prediction_pipeline assembles for a description
\* under test: one per direction.
TestPre(m) == OpList(m.nIn, 1, "add1")
TestPost(m) == OpList(m.nOut, 1, "add1")

InitTest ==
    /\ model \in TestModels
    /\ args \in TestArgs
    /\ adapter = NoAdapter
    /\ phase = "none"
    /\ pre_ops = << >>
    /\ post_ops = << >>
    /\ pc = "start"
    /\ loc = NoLoc
    /\ details = << >>
    /\ call = NoCall
    /\ setup = NoSetup

\* ErrorEntry(loc=("weights",), msg=error, type="bioimageio.core", traceback=tb)
ErrorEntry(where, msg, type, tb) ==
    [loc |-> where, msg |-> msg, type |-> type, traceback |-> tb]

\* ValidationDetail(name=..., status="passed" if ok else "failed", errors=...)
ValidationDetail(name, ok, errors) ==
    [name |-> name, status |-> IF ok THEN "passed" ELSE "failed",
     errors |-> IF ok THEN << >> ELSE errors]

\* _test_expected_resource_type(rd, expected_type)
test_expected_resource_type(rd, expected_type) ==
    ValidationDetail("Has expected resource type", rd.type = expected_type,
                     <<ErrorEntry("type", <<Tok("expected type", 0)>>, "type", << >>)>>)

\* load_description_and_test up to the first resource test.
LoadDescriptionAndTest ==
    /\ pc = "start"
    /\ details' = IF args.expected_type # "None"
                  THEN Append(details, test_expected_resource_type(model, args.expected_type))
                  ELSE details
    /\ IF model.type = "model"
       THEN /\ pc' = "load"
            /\ loc' = [NoLoc EXCEPT !.fn = "tmi"]
       ELSE /\ pc' = "done"
            /\ loc' = loc
    /\ UNCHANGED <<model, adapter, phase, pre_ops, post_ops, args, call, setup>>

\* The test tensors a description declares, as load_array hands them over.
TestInputs(m, sh) == [i \in 1..m.nIn |-> Tensor(1, sh, InAxes(i))]

ExpectedOutputs(m) ==
    LET n == IF m.version = "v0_4" THEN Min(m.nTestOut, m.nOut) ELSE m.nOut
    IN  { [i \in 1..n |-> Tensor(c[i], 1, OutAxes(i))] : c \in [1..n -> ExpectedVals] }

\* The exceptions a step can raise at site `site'.
Excs(site) == { Exc("Exception", m, site) : m \in ExcMsgs }

\* A handler that catches assertion failures only.
OnlyAssertionError(e) == e.kind = "AssertionError"

\* except Exception as e: every failure of the body is caught.
Catches(e) == TRUE

\* A raise inside the try block: handled by the except clause when it catches
\* e, otherwise e leaves the entry point.
RaiseTo(e, l) ==
    IF Catches(e) THEN [pc |-> "except", loc |-> [l EXCEPT !.pending = e]]
    ELSE [pc |-> "raised", loc |-> [l EXCEPT !.pending = e, !.escaped = e]]

\* Loading the test tensors (first lines of the try block).
Load ==
    /\ pc = "load"
    /\ \/ \E e \in Excs("load") :
            LET r == RaiseTo(e, loc) IN pc' = r.pc /\ loc' = r.loc
       \/ /\ loc.fn = "tmi"
          /\ \E ex \in ExpectedOutputs(model) :
                loc' = [loc EXCEPT !.inputs = TestInputs(model, 1), !.expected = ex]
          /\ pc' = "create"
       \/ /\ loc.fn = "tpi"
          /\ loc' = [loc EXCEPT !.inputs = TestInputs(model, 1)]
          /\ pc' = "create"
    /\ UNCHANGED <<model, adapter, phase, pre_ops, post_ops, args, details, call, setup>>

\* A pipeline used without its with statement.
AfterCreateNoWith == "forward"

\* with create_prediction_pipeline(...) as prediction_pipeline: the scope is
\* entered before the body runs.
AfterCreate == "enter"

\* create_prediction_pipeline(bioimageio_model=model, devices=devices, ...)
Create ==
    /\ pc = "create"
    /\ \E rt \in BOOLEAN :
         LET c == ONNXModelAdapter_init(model, rt, args.devices)
         IN  IF c.exc # NoExc
             THEN /\ LET r == RaiseTo(c.exc, loc) IN pc' = r.pc /\ loc' = r.loc
                  /\ UNCHANGED <<adapter, phase, pre_ops, post_ops>>
             ELSE /\ adapter' = c.adapter
                  /\ phase' = "uninitialized"
                  /\ pre_ops' = TestPre(model)
                  /\ post_ops' = TestPost(model)
                  /\ pc' = AfterCreate
                  /\ loc' = [loc EXCEPT !.n = 1]
    /\ UNCHANGED <<model, args, details, call, setup>>

\* Entering the with block.
Enter ==
    /\ pc = "enter"
    /\ phase' = PipelineEnter(phase)
    /\ pc' = "forward"
    /\ UNCHANGED <<model, adapter, pre_ops, post_ops, args, loc, details, call, setup>>

\* An exception in the body that skips the release of the pipeline.
AfterBodyNoExit(e) == IF e # NoExc THEN "except" ELSE "exit"

\* Leaving the body of the with block, normally or by an exception e: the
\* pipeline's __exit__ runs either way.
AfterBody(e) == "exit"

\* results = prediction_pipeline.forward(*inputs) in _test_model_inference
Forward ==
    /\ pc = "forward"
    /\ loc.fn = "tmi"
    /\ \E sess \in SessOutcomes(TestArrs, {model.nOut - 1, model.nOut}),
          fail \in Fails(pre_ops, post_ops) :
         LET r == PipelineForward(pre_ops, post_ops, adapter, model.nIn, model.nOut,
                                  loc.inputs, sess, fail)
         IN  /\ call' = [NoCall EXCEPT !.phase = phase]
             /\ loc' = [loc EXCEPT !.results = r.outputs, !.pending = r.exc]
             /\ pc' = AfterBody(r.exc)
    /\ UNCHANGED <<model, adapter, phase, pre_ops, post_ops, args, details, setup>>

\* The size of a parameterized axis for size parameter n, and the test case
\* generate_test_cases yields for n.
ParamSize(n) == 1 + n
ParamArrs(n) ==
    {Arr(0, ParamSize(n)), Arr(7, ParamSize(n)), Arr(0, ParamSize(n) + 1), NoneA}
ExpectedShapes(m, n) == [i \in 1..m.nOut |-> ParamSize(n)]

\* The messages the shape check of one test case adds to error.
RECURSIVE ShapeErrors(_, _, _, _)
ShapeErrors(results, shapes, n, k) ==
    IF k = 0 THEN << >>
    ELSE ShapeErrors(results, shapes, n, k - 1)
         \o (IF results[k].shape # shapes[k] THEN <<Tok("shape", n)>> ELSE << >>)

\* A loop that goes on to the next n after an error.
NoBreak(error) == FALSE

\* if error: break
BreakOnError(error) == error # << >>

\* One test case of _test_model_inference_with_parametrized_inputs: forward,
\* the check of the number of outputs and of their shapes, and the break.
Iterate ==
    /\ pc = "forward"
    /\ loc.fn = "tpi"
    /\ LET n == NList[loc.n]
           shapes == ExpectedShapes(model, n)
       IN \E sess \in SessOutcomes(ParamArrs(n), {model.nOut - 1, model.nOut}),
             fail \in Fails(pre_ops, post_ops) :
            LET inputs == TestInputs(model, ParamSize(n))
                r == PipelineForward(pre_ops, post_ops, adapter, model.nIn, model.nOut,
                                     inputs, sess, fail)
                counts == Len(r.outputs) = Len(shapes)
                added == IF ~counts THEN <<Tok("count", Len(r.outputs))>>
                         ELSE ShapeErrors(r.outputs, shapes, n, Len(shapes))
                noShape == Exc("AttributeError", <<Tok("shape", 0)>>, "shape")
            IN  /\ call' = [NoCall EXCEPT !.phase = phase]
                /\ IF r.exc # NoExc
                   THEN /\ loc' = [loc EXCEPT !.inputs = inputs, !.pending = r.exc]
                        /\ pc' = AfterBody(r.exc)
                   ELSE IF counts /\ \E i \in 1..Len(shapes) : r.outputs[i].none
                   THEN /\ loc' = [loc EXCEPT !.inputs = inputs, !.results = r.outputs,
                                              !.expected = shapes, !.pending = noShape]
                        /\ pc' = AfterBody(noShape)
                   ELSE /\ loc' = [loc EXCEPT !.inputs = inputs, !.results = r.outputs,
                                              !.expected = shapes,
                                              !.hasError = loc.hasError \/ added # << >>,
                                              !.error = loc.error \o added,
                                              !.n = IF BreakOnError(loc.error \o added)
                                                       \/ loc.n = Len(NList)
                                                    THEN loc.n ELSE loc.n + 1]
                        /\ pc' = IF BreakOnError(loc.error \o added)
                                    \/ loc.n = Len(NList)
                                 THEN AfterBody(NoExc) ELSE "forward"
    /\ UNCHANGED <<model, adapter, phase, pre_ops, post_ops, args, details, setup>>

\* Leaving the with block: PredictionPipeline.__exit__ unloads the adapter;
\* an exception raised in the body goes on to the except clause.
Exit ==
    /\ pc = "exit"
    /\ phase' = PipelineExit(phase)
    /\ adapter' = ONNXUnload(adapter)
    /\ IF loc.pending # NoExc
       THEN LET r == RaiseTo(loc.pending, loc) IN pc' = r.pc /\ loc' = r.loc
       ELSE /\ pc' = IF loc.fn = "tmi" THEN "compare" ELSE "detail"
            /\ loc' = loc
    /\ UNCHANGED <<model, pre_ops, post_ops, args, details, call, setup>>

\* A comparison that also accepts a difference of exactly 1.5 * 10**(-decimal).
AlmostEqualInclusive(res, exp, decimal) ==
    /\ res.shape = exp.shape
    /\ LET diff == IF res.data > exp.data THEN res.data - exp.data
                   ELSE exp.data - res.data
       IN  2 * diff * (10 ^ decimal) <= 3 * 10

\* np.testing.assert_array_almost_equal(res, exp, decimal=decimal) does not
\* raise: same shape and abs(res - exp) < 1.5 * 10**(-decimal) element-wise.
\* data is in tenths.
AlmostEqual(res, exp, decimal) ==
    /\ res.shape = exp.shape
    /\ LET diff == IF res.data > exp.data THEN res.data - exp.data
                   ELSE exp.data - res.data
       IN  2 * diff * (10 ^ decimal) < 3 * 10

\* The messages the comparison of the first k results adds to error.
RECURSIVE Disagreements(_, _, _, _)
Disagreements(results, expected, decimal, k) ==
    IF k = 0 THEN << >>
    ELSE Disagreements(results, expected, decimal, k - 1)
         \o (IF AlmostEqual(results[k], expected[k], decimal) THEN << >>
             ELSE <<Tok("disagree", k)>>)

\* The messages of a comparison that stops at the first disagreeing output.
RECURSIVE FirstDisagreement(_, _, _, _)
FirstDisagreement(results, expected, decimal, k) ==
    IF k > Len(results) THEN << >>
    ELSE IF AlmostEqual(results[k], expected[k], decimal)
    THEN FirstDisagreement(results, expected, decimal, k + 1)
    ELSE <<Tok("disagree", k)>>

CompareFirstOnly(results, expected, decimal) ==
    IF Len(results) # Len(expected)
    THEN <<Tok("count", Len(results))>>
    ELSE FirstDisagreement(results, expected, decimal, 1)

\* A comparison that pairs results and expected outputs without looking at
\* their numbers.
CompareNoCount(results, expected, decimal) ==
    Disagreements(results, expected, decimal, Min(Len(results), Len(expected)))

\* if len(results) != len(expected): ... else: for res, exp in zip(...): ...
\* The messages added to error (none: error stays None).
CompareResults(results, expected, decimal) ==
    IF Len(results) # Len(expected)
    THEN <<Tok("count", Len(results))>>
    ELSE Disagreements(results, expected, decimal, Len(results))

\* The comparison of results and expected outputs in _test_model_inference.
Compare ==
    /\ pc = "compare"
    /\ LET compared == Len(loc.results) = Len(loc.expected) /\ Len(loc.results) > 0
           noneResult == Exc("TypeError", <<Tok("NoneType", 0)>>, "compare")
       IN  \/ /\ compared
              /\ \E e \in Excs("compare") :
                    LET r == RaiseTo(e, loc) IN pc' = r.pc /\ loc' = r.loc
           \/ IF compared /\ \E i \in 1..Len(loc.results) : loc.results[i].none
              THEN LET r == RaiseTo(noneResult, loc) IN pc' = r.pc /\ loc' = r.loc
              ELSE LET added == CompareResults(loc.results, loc.expected, args.decimal)
                   IN  /\ loc' = [loc EXCEPT !.hasError = added # << >>,
                                             !.error = added]
                       /\ pc' = "detail"
    /\ UNCHANGED <<model, adapter, phase, pre_ops, post_ops, args, details, call, setup>>

\* An except clause that keeps the message and drops the stack trace.
ExceptNoTraceback(e, l) == [l EXCEPT !.hasError = TRUE, !.error = e.msg]

\* except Exception as e: error = str(e); tb = traceback.format_tb(e.__traceback__)
ExceptHandler(e, l) ==
    [l EXCEPT !.hasError = TRUE, !.error = e.msg, !.tb = e.tb]

Except ==
    /\ pc = "except"
    /\ loc' = ExceptHandler(loc.pending, loc)
    /\ pc' = "detail"
    /\ UNCHANGED <<model, adapter, phase, pre_ops, post_ops, args, details, call, setup>>

ReproduceName == "Reproduce test outputs from test inputs"

\* model.validation_summary.add_detail(ValidationDetail(...))
AddDetail ==
    /\ pc = "detail"
    /\ details' = Append(details,
                         ValidationDetail(ReproduceName, ~loc.hasError,
                             <<ErrorEntry("weights", loc.error, "bioimageio.core", loc.tb)>>))
    /\ pc' = "return"
    /\ UNCHANGED <<model, adapter, phase, pre_ops, post_ops, args, loc, call, setup>>

\* The resource test returns: its locals, the pipeline among them, are gone.
\* After _test_model_inference on a model that is not v0_4 the parametrized
\* test follows.
Return ==
    /\ pc = "return"
    /\ pc' = IF loc.fn = "tmi" /\ model.version # "v0_4" THEN "check" ELSE "done"
    /\ loc' = NoLoc
    /\ call' = NoCall
    /\ phase' = "none"
    /\ adapter' = NoAdapter
    /\ pre_ops' = << >>
    /\ post_ops' = << >>
    /\ UNCHANGED <<model, args, details, setup>>

\* A check that takes every model to have a parameterized input axis.
AnyInputAxis(m) == TRUE

\* any(isinstance(a.size, v0_5.ParameterizedSize)
\*     for ipt in model.inputs for a in ipt.axes)
HasParameterizedSize(m) == m.param

\* _test_model_inference_with_parametrized_inputs: return at once unless an
\* input axis has a parameterized size.
Check ==
    /\ pc = "check"
    /\ IF HasParameterizedSize(model)
       THEN /\ pc' = "load"
            /\ loc' = [NoLoc EXCEPT !.fn = "tpi"]
       ELSE /\ pc' = "done"
            /\ loc' = loc
    /\ UNCHANGED <<model, adapter, phase, pre_ops, post_ops, args, details, call, setup>>

NextTest ==
    \/ LoadDescriptionAndTest
    \/ Load
    \/ Create
    \/ Enter
    \/ Forward
    \/ Iterate
    \/ Exit
    \/ Compare
    \/ Except
    \/ AddDetail
    \/ Return
    \/ Check

SpecTest == InitTest /\ [][NextTest]_vars

(***************************************************************************)
(* io: download_rdf                                                        *)
(***************************************************************************)
\* An entry name of a zip package: whether it lies in a sub-directory, its
\* base name and what it ends with.
EntryNames ==
    {[dir |-> FALSE, base |-> "a", ext |-> ".bioimageio.yaml"],
     [dir |-> TRUE, base |-> "b", ext |-> ".bioimageio.yaml"],
     [dir |-> FALSE, base |-> "rdf", ext |-> ".yaml"],
     [dir |-> TRUE, base |-> "rdf", ext |-> ".yaml"],
     [dir |-> FALSE, base |-> "weights", ext |-> ".pt"]}

LEGACY_RDF_NAME == [dir |-> FALSE, base |-> "rdf", ext |-> ".yaml"]

NoName == [dir |-> FALSE, base |-> "", ext |-> ""]

\* What yaml.load gives for the file that is read: a mapping, a value of
\* another type (a list, None for an empty file), or a parser error.
YamlOutcomes == {"mapping", "list", "none", "invalid"}

\* The downloaded source: a zip package with its namelist, or a plain file.
Sources ==
    {[is_zipfile |-> TRUE, namelist |-> nl] : nl \in SeqsOfLen(EntryNames, 0..MaxEntries)}
        \cup {[is_zipfile |-> FALSE, namelist |-> << >>]}

\* fname.endswith(".bioimageio.yaml")
IsRdfName(fname) == fname.ext = ".bioimageio.yaml"

\* rdfs = [fname for fname in f.namelist() if fname.endswith(".bioimageio.yaml")]
RdfsIn(namelist) == SelectSeq(namelist, IsRdfName)

InNamelist(fname, namelist) == \E i \in 1..Len(namelist) : namelist[i] = fname

\* The selection of the description file of a package by preferring the
\* legacy name.
SelectRdfLegacyFirst(namelist) ==
    LET rdfs == RdfsIn(namelist)
    IN  IF InNamelist(LEGACY_RDF_NAME, namelist)
        THEN [error |-> FALSE, rdf_file_name |-> LEGACY_RDF_NAME]
        ELSE IF Len(rdfs) >= 1
        THEN [error |-> FALSE, rdf_file_name |-> rdfs[1]]
        ELSE [error |-> TRUE, rdf_file_name |-> NoName]

\* The selection of the description file of a package.
SelectRdf(namelist) ==
    LET rdfs == RdfsIn(namelist)
    IN  IF Len(rdfs) > 1
        THEN [error |-> TRUE, rdf_file_name |-> NoName]
        ELSE IF Len(rdfs) = 1
        THEN [error |-> FALSE, rdf_file_name |-> rdfs[1]]
        ELSE IF InNamelist(LEGACY_RDF_NAME, namelist)
        THEN [error |-> FALSE, rdf_file_name |-> LEGACY_RDF_NAME]
        ELSE [error |-> TRUE, rdf_file_name |-> NoName]

\* The outcome of a call: the exception, whether the package was extracted,
\* the file that was read, what it parsed to, whether a _LocalRdf was returned.
RdfOutcome(exc, extracted, rdf_file_name, content, returned) ==
    [made |-> TRUE, exc |-> exc, extracted |-> extracted,
     rdf_file_name |-> rdf_file_name, content |-> content, returned |-> returned]

NoDownload ==
    [made |-> FALSE, exc |-> NoExc, extracted |-> FALSE,
     rdf_file_name |-> NoName, content |-> "unread", returned |-> FALSE]

\* download_rdf(source) when the download gives local_source and yaml.load
\* of the file that is opened gives content.
download_rdf(local_source, content) ==
    LET sel == SelectRdf(local_source.namelist)
        extracted == local_source.is_zipfile
        rdf_file_name == IF local_source.is_zipfile THEN sel.rdf_file_name ELSE NoName
    IN  IF local_source.is_zipfile /\ sel.error
        THEN RdfOutcome(Exc("ValueError", <<Tok("rdfs", Len(RdfsIn(local_source.namelist)))>>,
                            "download_rdf"),
                        FALSE, NoName, "unread", FALSE)
        ELSE IF content = "invalid"
        THEN RdfOutcome(Exc("YAMLError", << >>, "download_rdf"),
                        extracted, rdf_file_name, content, FALSE)
        ELSE IF content # "mapping"
        THEN RdfOutcome(Exc("TypeError", << >>, "download_rdf"),
                        extracted, rdf_file_name, content, FALSE)
        ELSE RdfOutcome(NoExc, extracted, rdf_file_name, content, TRUE)

InitDownload ==
    /\ model \in Sources
    /\ args = [rdf_encoding |-> "utf-8"]
    /\ adapter = NoAdapter
    /\ phase = "none"
    /\ pre_ops = << >>
    /\ post_ops = << >>
    /\ pc = "download_rdf"
    /\ loc = NoLoc
    /\ details = << >>
    /\ call = NoDownload
    /\ setup = NoSetup

DownloadRdf ==
    /\ pc = "download_rdf"
    /\ \E content \in YamlOutcomes : call' = download_rdf(model, content)
    /\ pc' = IF call'.exc # NoExc THEN "rdf_raised" ELSE "rdf_returned"
    /\ UNCHANGED <<model, adapter, phase, pre_ops, post_ops, args, loc, details, setup>>

NextDownload == DownloadRdf

SpecDownload == InitDownload /\ [][NextDownload]_vars

(***************************************************************************)
(* weight_converter.torch.onnx: add_onnx_weights                           *)
(***************************************************************************)
\* The outputs of the original model on the test inputs and the arrays the
\* session of the exported model returns (data in tenths): equal, off by
\* 1.5, of another shape.
ConvertExpected == {Arr(1, 1)}
ConvertArrs == {Arr(1, 1), Arr(16, 1), Arr(1, 2)}

\* The model descriptions given to the converter.
ConvertModels == [pytorch_state_dict : BOOLEAN, nOut : 1..MaxTensors]

ConvertArgs == [use_tracing : BOOLEAN, test_decimal : Decimals, rt : BOOLEAN]

\* for exp, out in zip(expected_outputs, outputs):
\*     assert_array_almost_equal(exp, out, decimal=test_decimal)
\* (no AssertionError is raised)
AllAgree(expected_outputs, outputs, decimal) ==
    \A i \in 1..Min(Len(expected_outputs), Len(outputs)) :
        AlmostEqual(outputs[i], expected_outputs[i], decimal)

\* The outcome of a call: the value returned ("0", "1", "None"), the
\* exception, whether the onnx file was exported, the warnings emitted.
ConvertOutcome(ret, exc, exported, warnings, expected_outputs, outputs) ==
    [made |-> TRUE, ret |-> ret, exc |-> exc, exported |-> exported,
     warnings |-> warnings, expected |-> expected_outputs, outputs |-> outputs]

NoConvert ==
    [made |-> FALSE, ret |-> "None", exc |-> NoExc, exported |-> FALSE, warnings |-> 0,
     expected |-> << >>, outputs |-> << >>]

\* add_onnx_weights(model_spec, output_path=..., use_tracing=..., test_decimal=...)
\* for a loaded description, when the original model returns expected_outputs
\* and the session of the exported model returns outputs.
add_onnx_weights(model_spec, a, expected_outputs, outputs) ==
    IF ~model_spec.pytorch_state_dict
    THEN ConvertOutcome("None", Exc("ValueError", <<Tok("state dict", 0)>>, "convert"),
                        FALSE, 0, << >>, << >>)
    ELSE IF ~a.use_tracing
    THEN ConvertOutcome("None", Exc("NotImplementedError", << >>, "convert"),
                        FALSE, 0, expected_outputs, << >>)
    ELSE IF ~a.rt
    THEN ConvertOutcome("None", NoExc, TRUE, 1, expected_outputs, << >>)
    ELSE IF AllAgree(expected_outputs, outputs, a.test_decimal)
    THEN ConvertOutcome("0", NoExc, TRUE, 0, expected_outputs, outputs)
    ELSE ConvertOutcome("1", NoExc, TRUE, 1, expected_outputs, outputs)

InitConvert ==
    /\ model \in ConvertModels
    /\ args \in ConvertArgs
    /\ adapter = NoAdapter
    /\ phase = "none"
    /\ pre_ops = << >>
    /\ post_ops = << >>
    /\ pc = "convert"
    /\ loc = NoLoc
    /\ details = << >>
    /\ call = NoConvert
    /\ setup = NoSetup

AddOnnxWeights ==
    /\ pc = "convert"
    /\ \E expected_outputs \in SeqsOfLen(ConvertExpected, {model.nOut}),
          outputs \in SeqsOfLen(ConvertArrs, {model.nOut - 1, model.nOut, model.nOut + 1}) :
         call' = add_onnx_weights(model, args, expected_outputs, outputs)
    /\ pc' = IF call'.exc # NoExc THEN "convert_raised" ELSE "converted"
    /\ UNCHANGED <<model, adapter, phase, pre_ops, post_ops, args, loc, details, setup>>

NextConvert == AddOnnxWeights

SpecConvert == InitConvert /\ [][NextConvert]_vars

(***************************************************************************)
(* proc_setup: the assembly of the pre- and postprocessing operator lists  *)
(***************************************************************************)
\* Ids of the input and the output tensors of a description.
InputId(i) == i
OutputId(i) == 10 + i
DType(id) == IF id < 10 THEN "float32" ELSE "uint8"

\* A Measure: structural identity of scope (DatasetMeasure / SampleMeasure),
\* target tensor and statistic.
Measure(scope, t) == [scope |-> scope, tensor |-> t, stat |-> "mean"]

\* Declared processing steps (descriptors of the model description).
Step(name, mode) == [name |-> name, mode |-> mode]
Binarize == Step("binarize", "none")
PreSteps ==
    { Binarize, Step("zero_mean_unit_variance", "per_dataset"),
      Step("zero_mean_unit_variance", "per_sample") }
PostSteps == PreSteps \cup { Step("scale_mean_variance", "per_dataset") }

\* Step lists of one tensor: none, or one step of any kind, followed by a
\* per-sample normalization and then by binarize steps.
StepLists(steps, m) ==
    { << >> } \cup
    { [k \in 1..len |-> IF k = 1 THEN s
                        ELSE IF k = 2 THEN Step("zero_mean_unit_variance", "per_sample")
                        ELSE Binarize] : len \in 1..m, s \in steps }

\* Tensor descriptions of one direction: tensor j declares `st', the tensors
\* before it declare one binarize step and the tensors after it declare none.
TensorDescrs(ids, steps) ==
    { [i \in 1..n |-> [id |-> ids[i], data_type |-> DType(ids[i]),
                       steps |-> IF i = j THEN st
                                 ELSE IF i < j THEN <<Binarize>> ELSE << >>]] :
        n \in 1..MaxTensors, j \in 1..MaxTensors,
        st \in StepLists(steps, MaxSteps) }

\* EnsureDtype(input=member_id, output=member_id, dtype=t_descr.data_type)
EnsureDtype(input, output, dtype) ==
    [op |-> "EnsureDtype", input |-> input, output |-> output, dtype |-> dtype]

\* preproc_v4_to_processing / postproc_v4_to_processing / ..v5..: the
\* operator of the k-th declared step of a tensor.
ToProcessing(t_descr, k) ==
    [op |-> t_descr.steps[k].name, mode |-> t_descr.steps[k].mode,
     tensor |-> t_descr.id, step |-> k]

\* Processing.required_measures
required_measures(proc) ==
    CASE proc.op = "zero_mean_unit_variance" /\ proc.mode = "per_dataset" ->
            { Measure("dataset", proc.tensor) }
      [] proc.op = "zero_mean_unit_variance" /\ proc.mode = "per_sample" ->
            { Measure("sample", proc.tensor) }
      [] proc.op = "scale_mean_variance" ->
            { Measure("dataset", InputId(1)) }
      [] OTHER -> {}

\* {m for proc in procs for m in proc.required_measures}
MeasuresOf(procs) == UNION { required_measures(procs[k]) : k \in 1..Len(procs) }

\* The operators of a tensor's steps, last step first.
DeclaredReversed(t_descr) ==
    [k \in 1..Len(t_descr.steps) |-> ToProcessing(t_descr, Len(t_descr.steps) + 1 - k)]

\* for proc_d in t_descr.preprocessing: procs.append(...)
Declared(t_descr) == [k \in 1..Len(t_descr.steps) |-> ToProcessing(t_descr, k)]

\* EnsureDtype appended only for a tensor that declares steps.
RECURSIVE ProcsWithDtypePerStep(_, _)
ProcsWithDtypePerStep(tensor_descrs, i) ==
    IF i > Len(tensor_descrs) THEN << >>
    ELSE (IF tensor_descrs[i].steps = << >> THEN << >>
          ELSE <<EnsureDtype(tensor_descrs[i].id, tensor_descrs[i].id,
                             tensor_descrs[i].data_type)>>)
         \o Declared(tensor_descrs[i]) \o ProcsWithDtypePerStep(tensor_descrs, i + 1)

\* EnsureDtype appended behind the steps of its tensor.
RECURSIVE ProcsWithDtypeLast(_, _)
ProcsWithDtypeLast(tensor_descrs, i) ==
    IF i > Len(tensor_descrs) THEN << >>
    ELSE Declared(tensor_descrs[i])
         \o <<EnsureDtype(tensor_descrs[i].id, tensor_descrs[i].id,
                          tensor_descrs[i].data_type)>>
         \o ProcsWithDtypeLast(tensor_descrs, i + 1)

\* for t_descr in tensor_descrs: procs.append(EnsureDtype(...)); then the steps
RECURSIVE ProcsWithDtype(_, _)
ProcsWithDtype(tensor_descrs, i) ==
    IF i > Len(tensor_descrs) THEN << >>
    ELSE <<EnsureDtype(tensor_descrs[i].id, tensor_descrs[i].id,
                       tensor_descrs[i].data_type)>>
         \o Declared(tensor_descrs[i]) \o ProcsWithDtype(tensor_descrs, i + 1)

RECURSIVE ProcsDeclared(_, _)
ProcsDeclared(tensor_descrs, i) ==
    IF i > Len(tensor_descrs) THEN << >>
    ELSE Declared(tensor_descrs[i]) \o ProcsDeclared(tensor_descrs, i + 1)

prepare_v4_preprocs(tensor_descrs) ==
    LET procs == ProcsWithDtype(tensor_descrs, 1)
    IN  [procs |-> procs, measures |-> MeasuresOf(procs)]

prepare_v4_postprocs(tensor_descrs) ==
    LET procs == ProcsWithDtype(tensor_descrs, 1)
    IN  [procs |-> procs, measures |-> MeasuresOf(procs)]

prepare_v5_preprocs(tensor_descrs) ==
    LET procs == ProcsDeclared(tensor_descrs, 1)
    IN  [procs |-> procs, measures |-> MeasuresOf(procs)]

prepare_v5_postprocs(tensor_descrs) ==
    LET procs == ProcsDeclared(tensor_descrs, 1)
    IN  [procs |-> procs, measures |-> MeasuresOf(procs)]

prepare_setup_pre_and_postprocessing(m) ==
    LET pre == IF m.version = "v0_4" THEN prepare_v4_preprocs(m.inputs)
               ELSE prepare_v5_preprocs(m.inputs)
        post == IF m.version = "v0_4" THEN prepare_v4_postprocs(m.outputs)
                ELSE prepare_v5_postprocs(m.outputs)
    IN  [pre |-> pre.procs, post |-> post.procs,
         pre_measures |-> pre.measures, post_measures |-> post.measures]

\* A mapping from measures to values; the empty mapping.
NoStats == [x \in {} |-> 0]

\* StatsCalculator(measures, initial): the measures seeded with a value are
\* not aggregated; for the others the calculator keeps the data folded in.
StatsCalculator(measures, initial) ==
    [measures |-> measures, initial |-> initial,
     folded |-> [x \in measures \ DOMAIN initial |-> << >>]]

\* StatsCalculator.update(sample)
CalcUpdate(calc, sample) ==
    [calc EXCEPT !.folded =
        [x \in DOMAIN calc.folded |->
            IF x.tensor \in sample.members THEN Append(calc.folded[x], sample.data)
            ELSE calc.folded[x]]]

RECURSIVE UpdateAll(_, _, _)
UpdateAll(calc, dataset, k) ==
    IF k > Len(dataset) THEN calc
    ELSE UpdateAll(CalcUpdate(calc, dataset[k]), dataset, k + 1)

RECURSIVE Sum(_, _)
Sum(s, k) == IF k > Len(s) THEN 0 ELSE s[k] + Sum(s, k + 1)

MeasureValue(x, data) ==
    IF x.scope = "dataset" THEN Sum(data, 1) \div Len(data) ELSE data[Len(data)]

\* StatsCalculator.finalize()
CalcFinalize(calc) ==
    IF \E x \in DOMAIN calc.folded : calc.folded[x] = << >>
    THEN [exc |-> Exc("Exception", <<Tok("nodata", 0)>>, "finalize"), stats |-> NoStats]
    ELSE [exc |-> NoExc,
          stats |-> [x \in calc.measures |->
                        IF x \in DOMAIN calc.initial THEN calc.initial[x]
                        ELSE MeasureValue(x, calc.folded[x])]]

UpdateStats(stats_calculator, keep_updating_initial_dataset_stats) ==
    [op |-> "UpdateStats", calc |-> stats_calculator,
     keep_updating |-> keep_updating_initial_dataset_stats]

AddKnownDatasetStats(stats) == [op |-> "AddKnownDatasetStats", stats |-> stats]

\* fixed_dataset_stats: None or a mapping.
NoFixed == [none |-> TRUE, map |-> NoStats]
Fixed(map) == [none |-> FALSE, map |-> map]

\* The post UpdateStats with a calculator that was not seeded.
PostUpdateStatsUnseeded(post_meas, initial_stats, keep) ==
    UpdateStats(StatsCalculator(post_meas, NoStats), keep)

\* The post UpdateStats given the negated flag.
PostUpdateStatsFlipped(post_meas, initial_stats, keep) ==
    UpdateStats(StatsCalculator(post_meas, initial_stats), ~keep)

\* UpdateStats(StatsCalculator(post_meas, initial_stats),
\*             keep_updating_initial_dataset_stats=...)
PostUpdateStats(post_meas, initial_stats, keep) ==
    UpdateStats(StatsCalculator(post_meas, initial_stats), keep)

\* An UpdateStats in the post list whatever the post measures are.
PostAlways(post_meas) == TRUE

\* if post_meas:
PostNeedsUpdateStats(post_meas) == post_meas # {}

\* AddKnownDatasetStats put behind the head of the list.
InsertKnownBehindHead(procs, fixed) ==
    IF ~fixed.none /\ DOMAIN fixed.map # {}
    THEN IF procs = << >> THEN <<AddKnownDatasetStats(fixed.map)>>
         ELSE <<Head(procs), AddKnownDatasetStats(fixed.map)>> \o Tail(procs)
    ELSE procs

\* if fixed_dataset_stats: procs.insert(0, AddKnownDatasetStats(fixed_dataset_stats))
\* (None and the empty mapping are both falsy)
InsertKnown(procs, fixed) ==
    IF ~fixed.none /\ DOMAIN fixed.map # {}
    THEN <<AddKnownDatasetStats(fixed.map)>> \o procs
    ELSE procs

\* Nothing is missing when no fixed statistics are given.
MissingUnlessNone(measures, fixed) ==
    { x \in measures : ~fixed.none /\ x \notin DOMAIN fixed.map }

\* {m for m in prep_meas | post_meas
\*  if fixed_dataset_stats is None or m not in fixed_dataset_stats}
MissingDatasetStats(measures, fixed) ==
    { x \in measures : fixed.none \/ x \notin DOMAIN fixed.map }

\* An initial pass that takes the samples last to first.
InitialPassReversed(dataset) ==
    [k \in 1..Len(dataset) |-> Tok("update", dataset[Len(dataset) + 1 - k].id)]
    \o <<Tok("finalize", 0)>>

\* for sample in dataset_for_initial_statistics: initial_stats_calc.update(sample)
\* initial_stats = initial_stats_calc.finalize()
\* (the calls on the initial calculator, in order)
InitialPass(dataset) ==
    [k \in 1..Len(dataset) |-> Tok("update", dataset[k].id)] \o <<Tok("finalize", 0)>>

setup_pre_and_postprocessing(m, dataset, keep, fixed) ==
    LET s == prepare_setup_pre_and_postprocessing(m)
        missing == MissingDatasetStats(s.pre_measures \cup s.post_measures, fixed)
        calc == UpdateAll(StatsCalculator(missing, NoStats), dataset, 1)
        fin == IF missing # {} THEN CalcFinalize(calc)
               ELSE [exc |-> NoExc, stats |-> NoStats]
        log == IF missing # {} THEN InitialPass(dataset) ELSE << >>
        prep1 == <<UpdateStats(StatsCalculator(s.pre_measures, fin.stats), keep)>>
                 \o s.pre
        post1 == IF PostNeedsUpdateStats(s.post_measures)
                 THEN <<PostUpdateStats(s.post_measures, fin.stats, keep)>> \o s.post
                 ELSE s.post
    IN  IF fin.exc # NoExc
        THEN [done |-> TRUE, exc |-> fin.exc, pre |-> << >>, post |-> << >>,
              log |-> log, initial_stats |-> NoStats]
        ELSE [done |-> TRUE, exc |-> NoExc,
              pre |-> InsertKnown(prep1, fixed),
              post |-> InsertKnown(post1, fixed),
              log |-> log, initial_stats |-> fin.stats]

\* Model descriptions, datasets and arguments of the calls.
SetupModels ==
    { [version |-> v, inputs |-> ins, outputs |-> outs] :
        v \in {"v0_4", "v0_5"},
        ins \in TensorDescrs([i \in 1..MaxTensors |-> InputId(i)], PreSteps),
        outs \in TensorDescrs([i \in 1..MaxTensors |-> OutputId(i)], PostSteps) }

\* Sample k of a dataset holds data k for its members: the input tensors, or
\* the input and the output tensors.
DatasetSample(k, m, full) ==
    [id |-> k, data |-> k,
     members |-> { m.inputs[i].id : i \in 1..Len(m.inputs) } \cup
                 (IF full THEN { m.outputs[i].id : i \in 1..Len(m.outputs) } ELSE {})]

Datasets(m) ==
    { [k \in 1..n |-> DatasetSample(k, m, full)] : n \in 0..MaxSamples, full \in BOOLEAN }

FixedStats ==
    { NoFixed, Fixed(NoStats), Fixed([x \in {Measure("dataset", InputId(1))} |-> 7]) }

InitSetup ==
    /\ model \in SetupModels
    /\ \E d \in Datasets(model), keep \in BOOLEAN, fixed \in FixedStats :
          args = [dataset_for_initial_statistics |-> d,
                  keep_updating_initial_dataset_stats |-> keep,
                  fixed_dataset_stats |-> fixed]
    /\ adapter = NoAdapter
    /\ phase = "none"
    /\ pre_ops = << >>
    /\ post_ops = << >>
    /\ pc = "setup"
    /\ loc = NoLoc
    /\ details = << >>
    /\ call = NoCall
    /\ setup = NoSetup

\* setup_pre_and_postprocessing(model, dataset_for_initial_statistics,
\*     keep_updating_initial_dataset_stats, fixed_dataset_stats)
SetupPreAndPostprocessing ==
    /\ pc = "setup"
    /\ setup' = setup_pre_and_postprocessing(model,
                    args.dataset_for_initial_statistics,
                    args.keep_updating_initial_dataset_stats,
                    args.fixed_dataset_stats)
    /\ pc' = IF setup'.exc # NoExc THEN "setup_raised" ELSE "setup_returned"
    /\ UNCHANGED <<model, adapter, phase, pre_ops, post_ops, args, loc, details, call>>

NextSetup == SetupPreAndPostprocessing

SpecSetup == InitSetup /\ [][NextSetup]_vars

(***************************************************************************)
(* proc_setup: the queries for the required measures                       *)
(***************************************************************************)
\* isinstance(m, DatasetMeasureBase) / isinstance(m, SampleMeasureBase)
IsDatasetMeasure(x) == x.scope = "dataset"
IsSampleMeasure(x) == x.scope = "sample"

get_requried_measures(m) ==
    LET s == prepare_setup_pre_and_postprocessing(m)
    IN  [pre |-> s.pre_measures, post |-> s.post_measures]

\* The dataset measures of pre-processing returned for both directions.
get_required_dataset_measures_of_pre(m) ==
    LET s == prepare_setup_pre_and_postprocessing(m)
    IN  [pre |-> { x \in s.pre_measures : IsDatasetMeasure(x) },
         post |-> { x \in s.pre_measures : IsDatasetMeasure(x) }]

get_required_dataset_measures(m) ==
    LET s == prepare_setup_pre_and_postprocessing(m)
    IN  [pre |-> { x \in s.pre_measures : IsDatasetMeasure(x) },
         post |-> { x \in s.post_measures : IsDatasetMeasure(x) }]

get_requried_sample_measures(m) ==
    LET s == prepare_setup_pre_and_postprocessing(m)
    IN  [pre |-> { x \in s.pre_measures : IsSampleMeasure(x) },
         post |-> { x \in s.post_measures : IsSampleMeasure(x) }]

InitQuery ==
    /\ model \in SetupModels
    /\ args = NoArgs
    /\ adapter = NoAdapter
    /\ phase = "none"
    /\ pre_ops = << >>
    /\ post_ops = << >>
    /\ pc = "query"
    /\ loc = NoLoc
    /\ details = << >>
    /\ call = NoCall
    /\ setup = NoSetup

\* A caller asks the three queries for one description.
QueryRequiredMeasures ==
    /\ pc = "query"
    /\ setup' = [done |-> FALSE,
                 measures |-> get_requried_measures(model),
                 dataset_measures |-> get_required_dataset_measures(model),
                 sample_measures |-> get_requried_sample_measures(model)]
    /\ pc' = "queried"
    /\ UNCHANGED <<model, adapter, phase, pre_ops, post_ops, args, loc, details, call>>

NextQuery == QueryRequiredMeasures

SpecQuery == InitQuery /\ [][NextQuery]_vars

(***************************************************************************)
(* The operator lists of setup_pre_and_postprocessing at inference         *)
(***************************************************************************)
\* Descriptions with one input and one output tensor.
StatsModels == { m \in SetupModels : Len(m.inputs) = 1 /\ Len(m.outputs) = 1 }

\* The data of the samples seen at inference.
InferenceData == {3, 5}

\* The sample given to pre-processing holds the input tensors, the sample
\* given to post-processing the output tensors as well.
InferenceSample(n, d, m, stage) ==
    [id |-> n, data |-> d,
     members |-> { m.inputs[i].id : i \in 1..Len(m.inputs) } \cup
                 (IF stage = "post" THEN { m.outputs[i].id : i \in 1..Len(m.outputs) }
                  ELSE {})]

\* sample.stat.update(values)
Updated(stat, values) ==
    [x \in DOMAIN stat \cup DOMAIN values |->
        IF x \in DOMAIN values THEN values[x] ELSE stat[x]]

\* The sample measures of a calculator, computed from the sample at hand.
FreshSampleStats(calc, sample) ==
    [x \in { y \in calc.measures : y.scope = "sample" /\ y.tensor \in sample.members } |->
        sample.data]

\* UpdateStats.__call__(sample): in online mode the sample is folded into
\* the calculator first; the finalized values are written into the sample's
\* stats scope.
UpdateStatsCall(op, sample, stat) ==
    LET calc == IF op.keep_updating THEN CalcUpdate(op.calc, sample) ELSE op.calc
        fin == CalcFinalize(calc)
    IN  [op |-> [op EXCEPT !.calc = calc], exc |-> fin.exc,
         stat |-> IF fin.exc # NoExc THEN stat
                  ELSE Updated(Updated(stat, fin.stats), FreshSampleStats(calc, sample))]

\* AddKnownDatasetStats.__call__(sample)
AddKnownDatasetStatsCall(op, stat) == Updated(stat, op.stats)

\* The operators of a list applied to a sample in order, from the k-th on:
\* the list with its calculators afterwards, the stats scope, the values the
\* operators read from the scope, and the exception if one was raised.
RECURSIVE ApplyProcs(_, _, _, _, _)
ApplyProcs(procs, sample, stat, reads, k) ==
    IF k > Len(procs)
    THEN [procs |-> procs, stat |-> stat, reads |-> reads, exc |-> NoExc]
    ELSE IF procs[k].op = "AddKnownDatasetStats"
    THEN ApplyProcs(procs, sample, AddKnownDatasetStatsCall(procs[k], stat), reads, k + 1)
    ELSE IF procs[k].op = "UpdateStats"
    THEN LET r == UpdateStatsCall(procs[k], sample, stat)
         IN  IF r.exc # NoExc
             THEN [procs |-> [procs EXCEPT ![k] = r.op], stat |-> stat,
                   reads |-> reads, exc |-> r.exc]
             ELSE ApplyProcs([procs EXCEPT ![k] = r.op], sample, r.stat, reads, k + 1)
    ELSE LET need == required_measures(procs[k])
         IN  IF ~(need \subseteq DOMAIN stat)
             THEN [procs |-> procs, stat |-> stat, reads |-> reads,
                   exc |-> Exc("KeyError", <<Tok("stat", k)>>, "processing")]
             ELSE IF need = {} THEN ApplyProcs(procs, sample, stat, reads, k + 1)
             ELSE ApplyProcs(procs, sample, stat,
                             Append(reads, [x \in need |-> stat[x]]), k + 1)

\* The record of the inference calls: the data of the samples so far, the
\* stage and the sample of the last application, its stats scope, the
\* values its operators read, its exception.
NoInference ==
    [history |-> << >>, stage |-> "none", sample |-> [id |-> 0, data |-> 0, members |-> {}],
     stat |-> NoStats, reads |-> << >>, exc |-> NoExc]

InitStats ==
    /\ model \in StatsModels
    /\ \E d \in Datasets(model), keep \in BOOLEAN, fixed \in FixedStats :
          args = [dataset_for_initial_statistics |-> d,
                  keep_updating_initial_dataset_stats |-> keep,
                  fixed_dataset_stats |-> fixed]
    /\ adapter = NoAdapter
    /\ phase = "none"
    /\ pre_ops = << >>
    /\ post_ops = << >>
    /\ pc = "setup"
    /\ loc = NoLoc
    /\ details = << >>
    /\ call = NoInference
    /\ setup = NoSetup

\* The pre-processing list applied to the sample of a new forward call.
ApplyPreprocessing ==
    /\ pc = "setup_returned"
    /\ Len(call.history) < MaxCalls
    /\ \E d \in InferenceData :
         LET sample == InferenceSample(Len(call.history) + 1, d, model, "pre")
             r == ApplyProcs(setup.pre, sample, NoStats, << >>, 1)
         IN  /\ setup' = [setup EXCEPT !.pre = r.procs]
             /\ call' = [history |-> Append(call.history, d), stage |-> "pre",
                         sample |-> sample, stat |-> r.stat, reads |-> r.reads,
                         exc |-> r.exc]
             /\ pc' = IF r.exc # NoExc THEN "inference_raised" ELSE "preprocessed"
    /\ UNCHANGED <<model, adapter, phase, pre_ops, post_ops, args, loc, details>>

\* The post-processing list applied to the sample with the outputs; the
\* stats scope of the sample is carried on.
ApplyPostprocessing ==
    /\ pc = "preprocessed"
    /\ LET sample == InferenceSample(call.sample.id, call.sample.data, model, "post")
           r == ApplyProcs(setup.post, sample, call.stat, << >>, 1)
       IN  /\ setup' = [setup EXCEPT !.post = r.procs]
           /\ call' = [call EXCEPT !.stage = "post", !.sample = sample,
                                   !.stat = r.stat, !.reads = r.reads, !.exc = r.exc]
           /\ pc' = IF r.exc # NoExc THEN "inference_raised" ELSE "setup_returned"
    /\ UNCHANGED <<model, adapter, phase, pre_ops, post_ops, args, loc, details>>

NextStats ==
    \/ SetupPreAndPostprocessing
    \/ ApplyPreprocessing
    \/ ApplyPostprocessing

SpecStats == InitStats /\ [][NextStats]_vars

(***************************************************************************)
(* Properties of setup_pre_and_postprocessing                              *)
(***************************************************************************)
IsDeclared(proc) == proc.op \notin {"UpdateStats", "AddKnownDatasetStats", "EnsureDtype"}

\* The list holds an UpdateStats ahead of all its declared operators.
UpdateStatsAhead(procs) ==
    \E k \in 1..Len(procs) :
        /\ procs[k].op = "UpdateStats"
        /\ \A j \in 1..Len(procs) : IsDeclared(procs[j]) => k < j

NumUpdateStats(procs) == Cardinality({ k \in 1..Len(procs) : procs[k].op = "UpdateStats" })

\* Some declared step of the output tensors requires a measure.
PostRequiresMeasure ==
    \E i \in 1..Len(model.outputs) : \E k \in 1..Len(model.outputs[i].steps) :
        model.outputs[i].steps[k] # Binarize

\* C10 (as claimed): both returned operator lists hold an UpdateStats ahead
\* of all declared operators of their direction.
C10_BothUpdateStats ==
    pc = "setup_returned" =>
        /\ UpdateStatsAhead(setup.pre)
        /\ UpdateStatsAhead(setup.post)

\* C10 (amended): the returned pre list always holds exactly one UpdateStats,
\* ahead of all declared operators; the returned post list holds one, ahead
\* of all declared operators, exactly when a declared postprocessing step
\* requires a measure, and none otherwise.
C10_UpdateStatsWhenRequired ==
    pc = "setup_returned" =>
        /\ UpdateStatsAhead(setup.pre)
        /\ NumUpdateStats(setup.pre) = 1
        /\ PostRequiresMeasure => (UpdateStatsAhead(setup.post) /\ NumUpdateStats(setup.post) = 1)
        /\ ~PostRequiresMeasure => NumUpdateStats(setup.post) = 0

\* A post list returned without UpdateStats although it holds a declared
\* operator, next to a pre list that has one.
C10_Witness ==
    /\ pc = "setup_returned"
    /\ NumUpdateStats(setup.post) = 0
    /\ \E j \in 1..Len(setup.post) : IsDeclared(setup.post[j])
    /\ UpdateStatsAhead(setup.pre)

\* The positions of the operators named op in a list.
Positions(procs, op) == { k \in 1..Len(procs) : procs[k].op = op }

\* Fixed dataset statistics were supplied: a mapping with at least one value.
FixedSupplied ==
    /\ ~args.fixed_dataset_stats.none
    /\ DOMAIN args.fixed_dataset_stats.map # {}

KnownFirst(procs) ==
    /\ Positions(procs, "AddKnownDatasetStats") = {1}
    /\ procs[1].stats = args.fixed_dataset_stats.map
    /\ \A k \in Positions(procs, "UpdateStats") : 1 < k

\* C11: when fixed dataset statistics are supplied, each returned list has
\* exactly one AddKnownDatasetStats, it carries the supplied mapping, it is
\* the first operator and it precedes the list's UpdateStats; when none are
\* supplied (None, or a mapping without values), neither list has one.
C11_KnownStatsFirst ==
    pc = "setup_returned" =>
        IF FixedSupplied
        THEN KnownFirst(setup.pre) /\ KnownFirst(setup.post)
        ELSE /\ Positions(setup.pre, "AddKnownDatasetStats") = {}
             /\ Positions(setup.post, "AddKnownDatasetStats") = {}

\* Fixed statistics were supplied and both returned lists have an UpdateStats
\* right behind the AddKnownDatasetStats.
C11_Witness ==
    /\ pc = "setup_returned"
    /\ FixedSupplied
    /\ Len(setup.pre) >= 2
    /\ Len(setup.post) >= 2
    /\ setup.pre[1].op = "AddKnownDatasetStats"
    /\ setup.pre[2].op = "UpdateStats"
    /\ setup.post[1].op = "AddKnownDatasetStats"
    /\ setup.post[2].op = "UpdateStats"

IsInjection(proc) == proc.op \in {"UpdateStats", "AddKnownDatasetStats"}

\* The injection operators of the list come before all its other operators.
InjectionPrefix(procs) ==
    \A j, k \in 1..Len(procs) :
        (IsInjection(procs[k]) /\ ~IsInjection(procs[j])) => k < j

\* The number of steps the tensors before tensor i declare.
RECURSIVE StepsBefore(_, _)
StepsBefore(descrs, i) ==
    IF i <= 1 THEN 0 ELSE StepsBefore(descrs, i - 1) + Len(descrs[i - 1].steps)

\* The operators of declared steps in the list are, in this order, the steps
\* of the tensors in description order, each tensor's steps in declared order.
DeclaredInOrder(procs, descrs) ==
    LET decl == SelectSeq(procs, IsDeclared)
    IN  /\ Len(decl) = StepsBefore(descrs, Len(descrs) + 1)
        /\ \A i \in 1..Len(descrs) : \A k \in 1..Len(descrs[i].steps) :
              LET proc == decl[StepsBefore(descrs, i) + k]
              IN  /\ proc.tensor = descrs[i].id
                  /\ proc.step = k
                  /\ proc.op = descrs[i].steps[k].name
                  /\ proc.mode = descrs[i].steps[k].mode

DtypePositions(procs, id) ==
    { k \in 1..Len(procs) : procs[k].op = "EnsureDtype" /\ procs[k].input = id }

\* Every tensor of descrs without declared steps has a dtype-normalization
\* operator in procs, and procs holds at least one assembled operator.
DtypeForStepless(procs, descrs) ==
    \A i \in 1..Len(descrs) :
        descrs[i].steps = << >> =>
            /\ DtypePositions(procs, descrs[i].id) # {}
            /\ Len(SelectSeq(procs, LAMBDA proc : ~IsInjection(proc))) >= 1

Stepless(descrs) == \A i \in 1..Len(descrs) : descrs[i].steps = << >>

\* C13 (as claimed): in either format version, every input or output tensor
\* that declares no steps still has a dtype-normalization operator in the
\* list of its direction, so the assembled list has length at least 1.
C13_DtypeForEveryTensor ==
    pc = "setup_returned" =>
        /\ DtypeForStepless(setup.pre, model.inputs)
        /\ DtypeForStepless(setup.post, model.outputs)

\* C13 (amended): for a v0_4 description every tensor that declares no steps
\* still has an EnsureDtype in the list of its direction, so the assembled
\* list has length at least 1; for a v0_5 description no EnsureDtype is
\* added, and the assembled list of a direction without declared steps is
\* empty.
C13_DtypeForLegacyOnly ==
    pc = "setup_returned" =>
        /\ model.version = "v0_4" =>
              /\ DtypeForStepless(setup.pre, model.inputs)
              /\ DtypeForStepless(setup.post, model.outputs)
        /\ model.version = "v0_5" =>
              /\ Positions(setup.pre, "EnsureDtype") = {}
              /\ Positions(setup.post, "EnsureDtype") = {}
              /\ Stepless(model.inputs) =>
                    SelectSeq(setup.pre, LAMBDA proc : ~IsInjection(proc)) = << >>
              /\ Stepless(model.outputs) =>
                    SelectSeq(setup.post, LAMBDA proc : ~IsInjection(proc)) = << >>

\* A v0_4 description with an input tensor that declares steps, an input
\* tensor that declares none and an output tensor that declares none.
C13_Witness ==
    /\ pc = "setup_returned"
    /\ model.version = "v0_4"
    /\ Len(model.inputs) = 2
    /\ model.inputs[1].steps # << >>
    /\ model.inputs[2].steps = << >>
    /\ model.outputs[1].steps = << >>
    /\ DtypePositions(setup.pre, model.inputs[2].id) # {}
    /\ DtypePositions(setup.post, model.outputs[1].id) # {}

\* Every tensor of descrs has exactly one EnsureDtype in procs, from and to
\* the tensor's id with its declared data type, and the tensor's declared
\* steps follow it immediately.
DtypeBeforeSteps(procs, descrs) ==
    \A i \in 1..Len(descrs) :
        \E k \in 1..Len(procs) :
            /\ DtypePositions(procs, descrs[i].id) = {k}
            /\ procs[k].output = descrs[i].id
            /\ procs[k].dtype = descrs[i].data_type
            /\ k + Len(descrs[i].steps) <= Len(procs)
            /\ \A n \in 1..Len(descrs[i].steps) :
                  /\ IsDeclared(procs[k + n])
                  /\ procs[k + n].tensor = descrs[i].id
                  /\ procs[k + n].step = n
                  /\ procs[k + n].op = descrs[i].steps[n].name

\* C14: for a v0_4 description every input and every output tensor
\* contributes exactly one EnsureDtype (reading and writing the tensor's id,
\* with its declared data type), immediately before the tensor's declared
\* steps.
C14_EnsureDtypePerTensor ==
    (pc = "setup_returned" /\ model.version = "v0_4") =>
        /\ DtypeBeforeSteps(setup.pre, model.inputs)
        /\ DtypeBeforeSteps(setup.post, model.outputs)
        /\ Cardinality(Positions(setup.pre, "EnsureDtype")) = Len(model.inputs)
        /\ Cardinality(Positions(setup.post, "EnsureDtype")) = Len(model.outputs)

\* A v0_4 description with two input tensors, the second with two steps, and
\* an output tensor with steps.
C14_Witness ==
    /\ pc = "setup_returned"
    /\ model.version = "v0_4"
    /\ Len(model.inputs) = 2
    /\ Len(model.inputs[2].steps) = 2
    /\ model.outputs[1].steps # << >>
    /\ Cardinality(Positions(setup.pre, "EnsureDtype")) = 2

\* The measures the declared steps of the tensors of one direction require.
RequiredBy(descrs) ==
    { x \in { Measure(sc, t) : sc \in {"dataset", "sample"},
                               t \in { InputId(1) } \cup
                                     { descrs[i].id : i \in 1..Len(descrs) } } :
        \E i \in 1..Len(descrs) : \E k \in 1..Len(descrs[i].steps) :
            LET st == descrs[i].steps[k]
            IN  \/ /\ st.name = "zero_mean_unit_variance"
                   /\ st.mode = "per_dataset"
                   /\ x = Measure("dataset", descrs[i].id)
                \/ /\ st.name = "zero_mean_unit_variance"
                   /\ st.mode = "per_sample"
                   /\ x = Measure("sample", descrs[i].id)
                \/ /\ st.name = "scale_mean_variance"
                   /\ x = Measure("dataset", InputId(1)) }

\* The measure has a value in the supplied fixed statistics.
FixedFor(x) ==
    /\ ~args.fixed_dataset_stats.none
    /\ x \in DOMAIN args.fixed_dataset_stats.map

\* The measures required by both directions and not fixed by the caller.
SharedMeasures ==
    { x \in RequiredBy(model.inputs) \cap RequiredBy(model.outputs) : ~FixedFor(x) }

\* The data of the samples of the dataset that hold the measure's tensor.
DataFor(x, dataset) ==
    LET held == SelectSeq(dataset, LAMBDA sample : x.tensor \in sample.members)
    IN  [k \in 1..Len(held) |-> held[k].data]

\* The UpdateStats operator of a list.
TheUpdateStats(procs) == procs[CHOOSE k \in Positions(procs, "UpdateStats") : TRUE]

\* C15: a measure required by pre- and by post-processing (and not fixed by
\* the caller) is computed once, in the one initial pass over the dataset
\* (every sample folded once, one finalize), and the calculators of the pre
\* and of the post UpdateStats are both seeded with that value.
C15_SharedMeasureOnce ==
    pc = "setup_returned" =>
        \A x \in SharedMeasures :
            LET d == args.dataset_for_initial_statistics
                value == Sum(DataFor(x, d), 1) \div Len(DataFor(x, d))
                pre_calc == TheUpdateStats(setup.pre).calc
                post_calc == TheUpdateStats(setup.post).calc
            IN  /\ setup.log = [k \in 1..Len(d) |-> Tok("update", k)]
                                \o <<Tok("finalize", 0)>>
                /\ x \in DOMAIN setup.initial_stats
                /\ setup.initial_stats[x] = value
                /\ x \in DOMAIN pre_calc.initial /\ pre_calc.initial[x] = value
                /\ x \in DOMAIN post_calc.initial /\ post_calc.initial[x] = value

\* The dataset mean of the first input is required by both directions and
\* was computed from a dataset with at least one sample.
C15_Witness ==
    /\ pc = "setup_returned"
    /\ Measure("dataset", InputId(1)) \in SharedMeasures
    /\ Len(args.dataset_for_initial_statistics) >= 1
    /\ TheUpdateStats(setup.post).calc.initial[Measure("dataset", InputId(1))] = 1

\* A required dataset measure that has no fixed value and for which no
\* sample of the dataset holds data.
Insufficient ==
    \E x \in RequiredBy(model.inputs) \cup RequiredBy(model.outputs) :
        /\ x.scope = "dataset"
        /\ ~FixedFor(x)
        /\ DataFor(x, args.dataset_for_initial_statistics) = << >>

\* C17: when a required dataset measure is not covered by fixed statistics
\* and no sample of the dataset provides data for it, the call fails at
\* finalize and returns no operator lists.
C17_InsufficientFails ==
    (pc \in {"setup_returned", "setup_raised"} /\ Insufficient) =>
        /\ pc = "setup_raised"
        /\ setup.exc # NoExc
        /\ setup.exc.tb = <<"finalize">>
        /\ setup.pre = << >>
        /\ setup.post = << >>

\* The call failed on a dataset whose samples lack the tensor of a required
\* dataset measure.
C17_Witness ==
    /\ pc = "setup_raised"
    /\ Insufficient
    /\ Len(args.dataset_for_initial_statistics) >= 1
    /\ args.fixed_dataset_stats.none

\* The dataset and the sample measures of one direction partition its
\* required measures, which are those of the direction's declared steps.
Partitioned(dir, descrs) ==
    /\ setup.dataset_measures[dir] \cap setup.sample_measures[dir] = {}
    /\ setup.dataset_measures[dir] \cup setup.sample_measures[dir] = setup.measures[dir]
    /\ setup.measures[dir] = RequiredBy(descrs)

\* C18: for each direction the sets of get_required_dataset_measures and of
\* get_requried_sample_measures are disjoint and their union is the set of
\* get_requried_measures, the union of the required measures of the
\* direction's operators.
C18_MeasuresPartition ==
    pc = "queried" =>
        /\ Partitioned("pre", model.inputs)
        /\ Partitioned("post", model.outputs)

\* A description whose pre-processing requires a dataset and a sample
\* measure and whose post-processing requires other measures.
C18_Witness ==
    /\ pc = "queried"
    /\ setup.dataset_measures.pre # {}
    /\ setup.sample_measures.pre # {}
    /\ setup.dataset_measures.post # {}
    /\ setup.measures.post # setup.measures.pre

\* The required measures that the fixed statistics do not cover.
Uncovered ==
    { x \in RequiredBy(model.inputs) \cup RequiredBy(model.outputs) : ~FixedFor(x) }

\* C29: when at least one required measure is not covered by fixed
\* statistics, every sample of dataset_for_initial_statistics is passed to
\* the initial calculator's update exactly once, in iteration order, and
\* finalize is called exactly once, after the last update; when every
\* required measure is covered (or none is required) the dataset is not
\* iterated at all and the initial statistics are empty.
C29_InitialPass ==
    pc \in {"setup_returned", "setup_raised"} =>
        LET d == args.dataset_for_initial_statistics
        IN  IF Uncovered # {}
            THEN /\ Len(setup.log) = Len(d) + 1
                 /\ \A k \in 1..Len(d) : setup.log[k] = Tok("update", d[k].id)
                 /\ setup.log[Len(d) + 1] = Tok("finalize", 0)
            ELSE /\ setup.log = << >>
                 /\ setup.initial_stats = NoStats
                 /\ pc = "setup_returned"

\* Two samples went into the initial pass and the call returned.
C29_Witness ==
    /\ pc = "setup_returned"
    /\ Uncovered # {}
    /\ Len(args.dataset_for_initial_statistics) = 2
    /\ setup.log = <<Tok("update", 1), Tok("update", 2), Tok("finalize", 0)>>
    /\ setup.initial_stats # NoStats

(***************************************************************************)
(* Properties of the operator lists at inference                           *)
(***************************************************************************)
\* The calculators of the UpdateStats operators of both lists.
InferenceCalculators ==
    { setup.pre[k].calc : k \in Positions(setup.pre, "UpdateStats") } \cup
    { setup.post[k].calc : k \in Positions(setup.post, "UpdateStats") }

\* No sample was folded into an aggregation for x: neither in the initial
\* pass nor by an UpdateStats at inference.
NeverFolded(x) ==
    /\ x \notin DOMAIN setup.initial_stats
    /\ \A calc \in InferenceCalculators :
           x \in DOMAIN calc.folded => calc.folded[x] = << >>

\* Every operator that read x from the stats scope obtained the fixed value.
ObtainedFixed(x) ==
    \A i \in 1..Len(call.reads) :
        x \in DOMAIN call.reads[i] =>
            call.reads[i][x] = args.fixed_dataset_stats.map[x]

\* C16: when the caller supplies a fixed value for a measure, no sample is
\* ever folded into an aggregation for that measure, neither a sample of the
\* initial dataset nor a sample seen at inference in online mode, and the
\* operators downstream obtain exactly the fixed value for it.
C16_FixedNeverFolded ==
    (setup.done /\ setup.exc = NoExc /\ FixedSupplied) =>
        \A x \in DOMAIN args.fixed_dataset_stats.map :
            NeverFolded(x) /\ ObtainedFixed(x)

\* The dataset measures of a calculator.
DatasetMeasuresOf(calc) == { x \in calc.measures : x.scope = "dataset" }

\* What the UpdateStats operators of a list did in the step that applied the
\* list (procs before, procs2 after the step) to the sample call'.sample.
\* Flag off: the calculator is left as it was and the dataset statistics
\* written are the values of the initial pass, the same as in the scope of
\* the call before.  Flag on: the sample is folded into the calculator and
\* the values written are those the calculator finalizes afterwards.
UpdateStatsDid(procs, procs2) ==
    \A k \in Positions(procs, "UpdateStats") :
        LET before == procs[k].calc
            after == procs2[k].calc
        IN  IF ~args.keep_updating_initial_dataset_stats
            THEN /\ after = before
                 /\ call'.exc = NoExc =>
                        \A x \in DatasetMeasuresOf(before) :
                            /\ x \in DOMAIN call'.stat
                            /\ call'.stat[x] = setup.initial_stats[x]
                            /\ x \in DOMAIN call.stat => call'.stat[x] = call.stat[x]
            ELSE /\ after = CalcUpdate(before, call'.sample)
                 /\ call'.exc = NoExc =>
                        \A x \in DatasetMeasuresOf(before) :
                            /\ x \in DOMAIN call'.stat
                            /\ call'.stat[x] = CalcFinalize(after).stats[x]

\* C19: with the online-update flag off, the dataset statistics that
\* UpdateStats writes into a sample's stats scope are the values finalized in
\* the initial pass and stay identical across the forward calls; with the
\* flag on, each invocation first folds the current sample into the
\* calculator and then writes the resulting values.
C19_OnlineFlag ==
    [][ (pc \in {"setup_returned", "preprocessed"} /\ call' # call) =>
            IF call'.stage = "pre" THEN UpdateStatsDid(setup.pre, setup'.pre)
            ELSE UpdateStatsDid(setup.post, setup'.post) ]_vars

\* Flag off: the second of two forward calls with different data is through
\* post-processing, and its scope holds a dataset statistic of the initial
\* pass.
C19_Witness ==
    /\ pc = "setup_returned"
    /\ ~args.keep_updating_initial_dataset_stats
    /\ Len(call.history) = 2
    /\ call.history[1] # call.history[2]
    /\ call.stage = "post"
    /\ \E x \in DOMAIN call.stat :
          /\ x.scope = "dataset"
          /\ x \in DOMAIN setup.initial_stats
    /\ Positions(setup.post, "UpdateStats") # {}

(***************************************************************************)
(* Properties of the resource tests                                        *)
(***************************************************************************)
LastDetail == details[Len(details)]

\* C1: the testing entry point never propagates an exception: whatever
\* fails while loading the test tensors, constructing the pipeline, running
\* forward, comparing or checking parametrized inputs, the call goes on to
\* its end and the summary of a model holds the detail of the test.
C1_NeverPropagates ==
    /\ loc.escaped = NoExc
    /\ pc # "raised"
    /\ pc # "done" => ENABLED NextTest
    /\ (pc = "done" /\ model.type = "model") =>
          \E k \in 1..Len(details) : details[k].name = ReproduceName

\* The call ended after the parametrized check caught a failure of its own.
C1_Witness ==
    /\ pc = "done"
    /\ model.param
    /\ Len(details) >= 2
    /\ LastDetail.status = "failed"
    /\ LastDetail.errors[1].traceback = <<"shape">>

\* C2 (as claimed): the adapter's backend resource is released exactly once,
\* at scope exit: it is held before the exit and gone after it.
C2_ReleasedAtExit ==
    /\ phase \in {"uninitialized", "active"} => adapter.session
    /\ phase = "closed" => ~adapter.session

\* C2 (amended): in every scoped use the adapter's unload is called exactly
\* once, at scope exit: not before the exit, not twice, and also when a
\* forward call inside the scope raised.
C2_UnloadedOnce ==
    /\ phase \in {"uninitialized", "active"} => adapter.unloads = 0
    /\ phase = "closed" => adapter.unloads = 1
    /\ (pc \in {"compare", "except", "detail", "return", "raised"} /\ phase # "none")
          => phase = "closed"

\* A scope with two forward calls, the second of which raised.
C2_Witness ==
    /\ pc = "return"
    /\ loc.fn = "tpi"
    /\ loc.n = 2
    /\ loc.pending.tb = <<"session.run">>
    /\ phase = "closed"
    /\ adapter.unloads = 1
    /\ adapter.session

PhaseOrder ==
    \/ phase' = phase
    \/ <<phase, phase'>> \in { <<"none", "uninitialized">>, <<"uninitialized", "active">>,
                              <<"active", "closed">>, <<"closed", "none">> }

\* C3: a pipeline moves through its phases only in the order uninitialized,
\* active, closed (then it is dropped), and forward is invoked only while
\* the pipeline is active.
C3_PhaseOrder ==
    /\ [][PhaseOrder]_vars
    /\ [](call # NoCall => call.phase = "active")

\* Forward was invoked and the pipeline has since been closed.
C3_Witness ==
    /\ call # NoCall
    /\ call.phase = "active"
    /\ phase = "closed"

\* C6: when the number of outputs forward returned differs from the number
\* of expected test outputs, the mismatch is recorded in a detail with
\* status failed and no exception leaves the entry point.
C6_CountMismatchReported ==
    (pc = "return" /\ loc.pending = NoExc /\ Len(loc.results) # Len(loc.expected)) =>
        /\ LastDetail.name = ReproduceName
        /\ LastDetail.status = "failed"
        /\ Len(LastDetail.errors) = 1
        /\ \E k \in 1..Len(LastDetail.errors[1].msg) :
              LastDetail.errors[1].msg[k] = Tok("count", Len(loc.results))
        /\ loc.escaped = NoExc

\* Forward returned two outputs where one test output was expected.
C6_Witness ==
    /\ pc = "return"
    /\ loc.fn = "tmi"
    /\ loc.pending = NoExc
    /\ Len(loc.results) = 2
    /\ Len(loc.expected) = 1

\* res agrees with exp at `decimal' decimals: the same shape and a
\* difference (data is in tenths) below 1.5 * 10**(-decimal).
Agrees(res, exp, decimal) ==
    /\ ~res.none
    /\ res.shape = exp.shape
    /\ \E diff \in 0..20 :
          /\ diff \in {res.data - exp.data, exp.data - res.data}
          /\ diff * (10 ^ decimal) * 2 < 30

\* C8: the detail _test_model_inference adds has status passed if and only if
\* no exception occurred, as many results as expected outputs came back and
\* every result agrees with its expected output at the caller's decimal;
\* otherwise its status is failed and it holds one error entry.
C8_PassedIff ==
    (pc = "return" /\ loc.fn = "tmi") =>
        /\ LastDetail.name = ReproduceName
        /\ LastDetail.status = "passed" <=>
              /\ loc.pending = NoExc
              /\ Len(loc.results) = Len(loc.expected)
              /\ \A i \in 1..Len(loc.results) :
                    Agrees(loc.results[i], loc.expected[i], args.decimal)
        /\ LastDetail.status = "passed" => LastDetail.errors = << >>
        /\ LastDetail.status # "passed" =>
              /\ LastDetail.status = "failed"
              /\ Len(LastDetail.errors) = 1

\* Two results, one exact and one that differs from its expected output
\* by less than the tolerance, pass at decimal 0.
C8_Witness ==
    /\ pc = "return"
    /\ loc.fn = "tmi"
    /\ args.decimal = 0
    /\ Len(loc.results) = 2
    /\ Len(loc.expected) = 2
    /\ loc.results[1].data = loc.expected[1].data
    /\ loc.results[2].data # loc.expected[2].data
    /\ LastDetail.status = "passed"

\* C9: an exception raised inside the try block of a resource test (during
\* forward or the comparison, among others) is caught, and the detail has
\* status failed with one error entry that carries the exception's message
\* and its stack trace.
C9_ExceptionRecorded ==
    (pc = "return" /\ loc.pending # NoExc) =>
        /\ LastDetail.status = "failed"
        /\ Len(LastDetail.errors) = 1
        /\ LastDetail.errors[1].msg = loc.pending.msg
        /\ LastDetail.errors[1].traceback = loc.pending.tb
        /\ LastDetail.errors[1].traceback # << >>

\* The session raised during forward with a message.
C9_Witness ==
    /\ pc = "return"
    /\ loc.fn = "tmi"
    /\ loc.pending.tb = <<"session.run">>
    /\ loc.pending.msg # << >>
    /\ LastDetail.errors[1].msg = loc.pending.msg

(***************************************************************************)
(* Properties of PredictionPipeline.forward in direct use                  *)
(***************************************************************************)
\* The sample after ops applied one after the other in list order.
InOrder(ops, sample) ==
    LET st[k \in 0..Len(ops)] ==
            IF k = 0 THEN sample ELSE ApplyTo(ops[k], st[k - 1])
    IN  st[Len(ops)]

\* The inputs of a call as Tensors tagged with the axes of their slots.
Tagged(items) ==
    [i \in 1..Len(items) |-> Tensor(items[i].data, items[i].shape, InAxes(i))]

\* The order of a complete forward call: pre 1..n, the adapter, post 1..m.
FullLog ==
    [k \in 1..(Len(pre_ops) + 1 + Len(post_ops)) |->
        IF k <= Len(pre_ops) THEN Tok("pre", k)
        ELSE IF k = Len(pre_ops) + 1 THEN Tok("adapter", 0)
        ELSE Tok("post", k - Len(pre_ops) - 1)]

AdapterCalls == Cardinality({ k \in DOMAIN call.log : call.log[k].k = "adapter" })

ForwardCalled == call # NoCall /\ call.exc.tb # <<"predict">>

\* C4: within one forward call the pre-processing operators run in list
\* order before the adapter's forward, the adapter's forward is invoked once
\* (never twice) with the pre-processed tensors in declared input order, and
\* the post-processing operators run in list order after it on the
\* adapter's outputs.
C4_ForwardOrder ==
    ForwardCalled =>
        /\ Len(call.log) <= Len(FullLog)
        /\ call.log = SubSeq(FullLog, 1, Len(call.log))
        /\ Len(call.adapterArgs) = AdapterCalls
        /\ AdapterCalls = 1 =>
               call.adapterArgs[1] = InOrder(pre_ops, Tagged(call.inputs))
        /\ call.returned =>
               /\ call.log = FullLog
               /\ AdapterCalls = 1
               /\ Len(call.adapterOut) = 1
               /\ call.outputs = InOrder(post_ops, call.adapterOut[1])

\* A forward call that returned, with two operators on either side whose
\* order shows in the tensors.
C4_Witness ==
    /\ call.returned
    /\ Len(pre_ops) = 2 /\ Len(post_ops) = 2
    /\ model.nIn = 1 /\ model.nOut = 1
    /\ ~call.outputs[1].none
    /\ call.adapterArgs[1] # InOrder(<<pre_ops[2], pre_ops[1]>>, Tagged(call.inputs))
    /\ call.outputs # InOrder(<<post_ops[2], post_ops[1]>>, call.adapterOut[1])

\* C5: when a pre-processing operator, the adapter's forward or a
\* post-processing operator fails during forward, the call fails as a whole:
\* it raises and returns no output list.
C5_NoPartialOutput ==
    (call # NoCall /\ (call.fail.stage # "none" \/ call.sess = "raise"
                       \/ call.exc.tb = <<"adapter.forward">>)) =>
        /\ ~call.returned
        /\ call.outputs = << >>
        /\ call.exc # NoExc

\* The second post-processing operator failed after the first one ran on the
\* adapter's outputs.
C5_Witness ==
    /\ call.fail.stage = "post" /\ call.fail.k = 2
    /\ call.exc.tb = <<"post">>
    /\ Len(call.adapterOut) = 1
    /\ call.adapterOut[1] # << >>
    /\ ~call.returned

\* C7: in direct use, when the adapter returns another number of outputs
\* than the description declares, the call fails with an error instead of
\* returning an output list.
C7_CountMismatchFails ==
    (call # NoCall /\ Len(call.adapterOut) = 1
       /\ Len(call.adapterOut[1]) # model.nOut) =>
        /\ ~call.returned
        /\ call.exc # NoExc

\* The adapter returned one output for a description that declares two.
C7_Witness ==
    /\ call # NoCall
    /\ model.nOut = 2
    /\ Len(call.adapterOut) = 1
    /\ Len(call.adapterOut[1]) = 1
    /\ call.exc.tb = <<"forward">>

\* The adapter's forward returned a list in the call.
AdapterReturned == call # NoCall /\ Len(call.adapterOut) = 1

\* Entry i of the adapter's list is None or a tensor tagged with the axes of
\* the i-th declared output.
TaggedAsDeclared(i) ==
    \/ call.adapterOut[1][i] = NoneT
    \/ /\ ~call.adapterOut[1][i].none
       /\ call.adapterOut[1][i].dims = OutAxes(i)

\* C20 as claimed: ONNXModelAdapter.forward returns exactly one entry per
\* declared output of the description, whatever number of arrays the session
\* returns.
C20_OnePerDeclaredOutput ==
    AdapterReturned => Len(call.adapterOut[1]) = model.nOut

\* C20: ONNXModelAdapter.forward returns one entry (a Tensor or None) per
\* array the session returns, up to the number of declared outputs, in
\* declared order, each non-None entry tagged with the axes of the declared
\* output at its position; there is one entry per declared output exactly
\* when the session returns at least as many arrays as are declared.
C20_OnePerReturnedArray ==
    AdapterReturned =>
        /\ Len(call.adapterOut[1]) = Min(call.nResult, model.nOut)
        /\ \A i \in 1..Len(call.adapterOut[1]) : TaggedAsDeclared(i)
        /\ Len(call.adapterOut[1]) = model.nOut <=> call.nResult >= model.nOut

\* The session returned three arrays, a None among them, for two declared
\* outputs.
C20_Witness ==
    /\ AdapterReturned
    /\ model.nOut = 2
    /\ call.nResult = 3
    /\ Len(call.adapterOut[1]) = 2
    /\ call.adapterOut[1][1].none
    /\ ~call.adapterOut[1][2].none
    /\ call.adapterOut[1][2].dims = OutAxes(2)

\* _test_model_inference compared the results with the expected outputs and
\* no exception was raised.
Compared ==
    /\ pc = "detail"
    /\ loc.fn = "tmi"
    /\ loc.pending = NoExc
    /\ Len(loc.results) = Len(loc.expected)

\* The outputs whose result disagrees with the expected output.
Disagreeing ==
    { k \in 1..Len(loc.results) :
        ~AlmostEqual(loc.results[k], loc.expected[k], args.decimal) }

\* C26: in _test_model_inference, when the result count matches, the
\* comparison does not stop at the first disagreeing output: every result
\* that disagrees with its expected output contributes its own message to
\* the reported error, and the outputs that agree contribute nothing.
C26_EveryDisagreement ==
    Compared =>
        /\ \A k \in 1..Len(loc.results) :
              (k \in Disagreeing) <=>
                  (\E i \in 1..Len(loc.error) : loc.error[i] = Tok("disagree", k))
        /\ Len(loc.error) = Cardinality(Disagreeing)
        /\ loc.hasError <=> Disagreeing # {}

\* Two outputs, both disagreeing with the expected outputs.
C26_Witness ==
    /\ Compared
    /\ Disagreeing = {1, 2}
    /\ loc.error = <<Tok("disagree", 1), Tok("disagree", 2)>>

\* The parametrized-input check is through its test cases and no exception
\* was raised.
CasesChecked ==
    /\ pc = "detail"
    /\ loc.fn = "tpi"
    /\ loc.pending = NoExc

\* The outputs of the last test case whose shape is not the expected one.
WrongShapes ==
    { k \in 1..Len(loc.results) : loc.results[k].shape # loc.expected[k] }

\* C23 as claimed: for a model with parametric input sizing the check runs a
\* test case for each n in {0, 1, 2, 3} and reports the shape mismatch of
\* each n whose output shape is wrong.
C23_EveryN ==
    CasesChecked => loc.n = Len(NList)

\* C23: for a model with parametric input sizing the check runs the test
\* cases for n = 0, 1, 2, 3 in this order and stops after the first n with
\* an error; it checks the number of the outputs and their shapes, never
\* their values, and the one report holds the messages of that n only: the
\* count mismatch, or one shape mismatch for each output of wrong shape.
C23_FirstFailingN ==
    /\ (pc = "forward" /\ loc.fn = "tpi") => (loc.error = << >> /\ ~loc.hasError)
    /\ CasesChecked =>
          /\ loc.n \in 1..Len(NList)
          /\ loc.n < Len(NList) => loc.hasError
          /\ loc.hasError <=> loc.error # << >>
          /\ IF Len(loc.results) # Len(loc.expected)
             THEN loc.error = <<Tok("count", Len(loc.results))>>
             ELSE /\ Len(loc.error) = Cardinality(WrongShapes)
                  /\ \A i \in 1..Len(loc.error) :
                        loc.error[i] = Tok("shape", NList[loc.n])

\* The case n = 0 passed with data other than the test tensor's, the case
\* n = 1 returned two outputs of wrong shape, and the check stopped there.
C23_Witness ==
    /\ CasesChecked
    /\ loc.n = 2
    /\ Len(loc.results) = 2
    /\ WrongShapes = {1, 2}
    /\ loc.error = <<Tok("shape", 1), Tok("shape", 1)>>

\* The names of the details one call is to append for the description, in
\* order.
DetailNames ==
    (IF args.expected_type # "None" THEN <<"Has expected resource type">> ELSE << >>)
    \o (IF model.type = "model" THEN <<ReproduceName>> ELSE << >>)
    \o (IF model.type = "model" /\ model.version # "v0_4" /\ model.param
        THEN <<ReproduceName>> ELSE << >>)

\* A step only appends to the details, one at a time.
DetailsAppended ==
    \/ details' = details
    \/ /\ Len(details') = Len(details) + 1
       /\ SubSeq(details', 1, Len(details)) = details

\* C27: one load_description_and_test call on a model description appends
\* its details in a fixed order and number: the detail of the expected
\* resource type first (only when expected_type is given), then exactly one
\* inference detail, then at most one parametrized-input detail, added only
\* for a model that is not v0_4 and has an input axis of parameterized size;
\* details already there are never removed or reordered.
C27_DetailOrder ==
    [][ /\ DetailsAppended
        /\ Len(details') <= Len(DetailNames)
        /\ \A k \in 1..Len(details') : details'[k].name = DetailNames[k]
        /\ pc' = "done" => Len(details') = Len(DetailNames) ]_vars

\* The call ended with its three details.
C27_Witness ==
    /\ pc = "done"
    /\ Len(details) = 3
    /\ details[1].name = "Has expected resource type"
    /\ details[2].name = ReproduceName
    /\ details[3].name = ReproduceName
    /\ details[2].status # details[3].status

(***************************************************************************)
(* Properties of predict                                                   *)
(***************************************************************************)
\* The inputs hold one value for every declared input.
WellFormed(inputs) ==
    \/ inputs.kind = "mapping"
    \/ Len(inputs.items) = model.nIn

\* The Tensor of the i-th declared input: the value given for it, a raw
\* array tagged with the axes of the i-th input.
TensorFor(inputs, i) ==
    IF inputs.items[i].isTensor
    THEN Tensor(inputs.items[i].data, inputs.items[i].shape, inputs.items[i].dims)
    ELSE FromNumpy(inputs.items[i], InAxes(i))

\* C25: predict passes to PredictionPipeline.forward exactly one Tensor per
\* declared input id, in declared input order: for a mapping the tensors
\* are selected by input id whatever the order of the mapping's keys, a
\* single array or Tensor is taken as a one-element sequence, and each raw
\* array is tagged with the axes of the input slot at its position.
C25_OnePerInputId ==
    (call # NoCall /\ WellFormed(call.inputs)) =>
        /\ Len(call.adapterArgs) = 1
        /\ call.adapterArgs[1] = [i \in 1..model.nIn |-> TensorFor(call.inputs, i)]


(***************************************************************************)
(* Properties of download_rdf                                              *)
(***************************************************************************)
\* The positions of the package's entries that end with ".bioimageio.yaml".
RdfEntries == {i \in 1..Len(model.namelist) : model.namelist[i].ext = ".bioimageio.yaml"}

HasLegacy == \E i \in 1..Len(model.namelist) : model.namelist[i] = LEGACY_RDF_NAME

SelectionError == call.exc.kind = "ValueError" /\ ~call.extracted /\ call.content = "unread"

Used(fname) == call.exc.kind # "ValueError" /\ call.extracted /\ call.rdf_file_name = fname

\* C30: download_rdf on a zip package selects the description file
\* deterministically: more than one '*.bioimageio.yaml' entry is an error,
\* exactly one is used, none falls back to 'rdf.yaml' if present and is an
\* error otherwise; in both error cases nothing is extracted; and content
\* that parses to something that is no mapping is rejected with a TypeError.
C30_RdfSelection ==
    call.made =>
        /\ model.is_zipfile =>
              /\ Cardinality(RdfEntries) > 1 => SelectionError
              /\ Cardinality(RdfEntries) = 1 =>
                    \A i \in RdfEntries : Used(model.namelist[i])
              /\ (RdfEntries = {} /\ HasLegacy) => Used(LEGACY_RDF_NAME)
              /\ (RdfEntries = {} /\ ~HasLegacy) => SelectionError
        /\ call.content \in {"list", "none"} =>
              (call.exc.kind = "TypeError" /\ ~call.returned)
        /\ call.returned => call.content = "mapping"

\* A package with one description entry next to an rdf.yaml was read, and
\* its content was no mapping.
C30_Witness ==
    /\ call.made
    /\ model.is_zipfile
    /\ Cardinality(RdfEntries) = 1
    /\ HasLegacy
    /\ call.extracted
    /\ call.content = "list"
    /\ call.exc.kind = "TypeError"


(***************************************************************************)
(* Properties of add_onnx_weights                                          *)
(***************************************************************************)
\* The exported model was run and reproduces every output of the original
\* model at test_decimal decimals.
Reproduced ==
    /\ call.exported
    /\ args.rt
    /\ Len(call.outputs) >= Len(call.expected)
    /\ \A i \in 1..Len(call.expected) :
          AlmostEqual(call.outputs[i], call.expected[i], args.test_decimal)

C21_InitFails ==
    (pc # "adapter" /\ (~args.rt \/ ~model.onnx)) =>
        /\ pc = "init_raised"
        /\ call.exc.kind = (IF ~args.rt THEN "ImportError" ELSE "ValueError")
        /\ ~adapter.session

\* onnxruntime is there, the description has no ONNX weights.
C21_Witness ==
    /\ pc = "init_raised"
    /\ args.rt
    /\ ~model.onnx
    /\ call.exc.kind = "ValueError"

\* What a step that unloads the adapter does.
UnloadOnlyWarns ==
    adapter'.unloads # adapter.unloads =>
        /\ adapter'.warnings = adapter.warnings + 1
        /\ adapter'.session = adapter.session
        /\ adapter'.nNames = adapter.nNames
        /\ call' = call
        /\ pc' = pc

\* What a step that constructs the adapter with a device list does.
DevicesOnlyWarn ==
    (pc = "adapter" /\ args'.devices /\ args'.rt /\ model.onnx) =>
        /\ pc' = "constructed"
        /\ call'.exc = NoExc
        /\ adapter'.session
        /\ adapter'.warnings = 1

\* C22: an unsupported capability of the ONNX adapter degrades to a warning
\* and never fails: construction with a device list succeeds with a usable
\* session after a warning, and unload emits a warning, raises nothing and
\* leaves the adapter's session and input names unchanged.
C22_WarnsOnly == [][DevicesOnlyWarn /\ UnloadOnlyWarns]_vars

\* An adapter constructed with a device list was unloaded and then ran a
\* forward call that returned.
C22_Witness ==
    /\ pc = "constructed"
    /\ args.devices
    /\ adapter.unloads = 1
    /\ adapter.warnings = 2
    /\ call.made
    /\ call.exc = NoExc
    /\ call.runs = 1

\* The feed of the session: the i-th positional input under the i-th input
\* name, None for None.
FeedOf(inputs) ==
    [i \in 1..Len(inputs) |-> [none |-> inputs[i].none, data |-> inputs[i].data,
                               shape |-> inputs[i].shape]]

\* C28: ONNXModelAdapter.forward called with a number of positional inputs
\* other than the number of inputs of the session fails on its assertion
\* without running the session; called with the right number it runs the
\* session exactly once, the i-th positional input paired with the i-th
\* session input name and a None input passed on as None.
C28_InputCount ==
    call.made =>
        IF Len(call.inputs) # adapter.nNames
        THEN /\ call.exc.kind = "AssertionError"
             /\ call.runs = 0
             /\ call.feed = << >>
        ELSE /\ call.runs = 1
             /\ call.feed = FeedOf(call.inputs)
             /\ call.exc.kind # "AssertionError"

\* Two inputs, the first one None, given to a session with two inputs.
C28_Witness ==
    /\ call.made
    /\ adapter.nNames = 2
    /\ Len(call.inputs) = 2
    /\ call.inputs[1] = NoneT
    /\ ~call.inputs[2].none
    /\ call.feed[1].none
    /\ call.feed[2].data = call.inputs[2].data
    /\ call.runs = 1

====
